---------------------------- MODULE Spec2Model ----------------------------
(***************************************************************************)
(* A model of the scanning-and-scoring engine of the repository analyser   *)
(* (advanced_github_analyzer.py, github_scraper.py).                       *)
(*                                                                         *)
(* The module holds several specifications, one per part of the engine.    *)
(* Each has its own variables; a specification keeps the variables of the  *)
(* other parts at their idle values.                                       *)
(*                                                                         *)
(* Numbers.  The scores are Python floats built from 0.1 and 0.2 steps;    *)
(* they are modelled exactly, as integers counting tenths (InTenths).  The   *)
(* ratio count / total of get_grade is modelled as the exact fraction      *)
(* <<count, total>>; the float comparison ratio < 0.01 agrees with the     *)
(* exact one for operands of this size, since the division and the         *)
(* literal are both rounded to nearest.                                    *)
(***************************************************************************)
EXTENDS Integers, Sequences, FiniteSets, TLC

VARIABLES
    tree, cloc, manifests, repo_dir,     \* the cloned tree and its tools
    pc, locals, result,                  \* analyze_repository_detailed
    count, total, grade,                 \* get_grade: arguments and result
    code_metrics, vulnerabilities, quality_issues, acid_scores,
                                         \* _calculate_acid_scores_detailed
    name, version, dep_vulnerabilities,  \* _check_dependency_vulnerabilities
    content, scan_vulnerabilities, scan_issues, sec_scans, qual_scans
                                         \* the pattern scanners, on one file

VARIABLES
    temp_dirs,                           \* the directories mkdtemp has made
    rate_limit_remaining, rate_limit_reset, now, sent,
                                         \* _make_request and the clock
    server, page, repos, requested,      \* _get_all_repositories
    repositories, attempted, analyzed_repos,
                                         \* analyze_user_profile
    outputs                              \* run_complete_analysis

gradeVars == <<count, total, grade>>
acidVars  == <<code_metrics, vulnerabilities, quality_issues, acid_scores>>
depVars   == <<name, version, dep_vulnerabilities>>
scanVars  == <<content, scan_vulnerabilities, scan_issues, sec_scans, qual_scans>>
passVars  == <<tree, cloc, manifests, repo_dir, temp_dirs, pc, locals, result>>
rateVars  == <<rate_limit_remaining, rate_limit_reset, now, sent>>
pageVars  == <<server, page, repos, requested>>
userVars  == <<repositories, attempted, analyzed_repos, outputs>>
clientVars == <<rateVars, pageVars, userVars>>
vars      == <<gradeVars, acidVars, depVars, scanVars, passVars, clientVars>>

Max(a, b) == IF a >= b THEN a ELSE b

\* dict.get(key, default), a dict being a function of its keys.
Get(d, key, default) == IF key \in DOMAIN d THEN d[key] ELSE default

\* {}
EmptyDict == [k \in {} |-> 0]

---------------------------------------------------------------------------
(* Bounds of the model.                                                    *)

MaxCount     == 22     \* get_grade: largest count tried
MaxTotal     == 100    \* get_grade: largest total tried
MaxBugs      == 11     \* quality issues typed 'bug'
MaxVulns     == 5      \* length of the security finding list
MaxSmells    == 501    \* quality issues typed 'code_smell'
MaxOther     == 1      \* quality issues of another type
MaxAcidFiles == 1      \* total_files handed to the score function
MaxVerNum    == 10     \* largest number in a dotted version string
MaxLen       == 5      \* longest file content scanned, in pieces
MaxTreeFiles == 2      \* most files in an analysed tree
MaxScans     == 2      \* scans of the same content in one behaviour
MaxEntries   == 2      \* most entries of the dependencies map of package.json
MaxLines     == 2      \* most lines of requirements.txt
MaxFunctions    == 5   \* most function matches in a counted file
MaxConditionals == 6   \* most conditional matches in a counted file
MaxLoops        == 4   \* most loop matches in a counted file

---------------------------------------------------------------------------
(* get_grade (the closure of _calculate_acid_scores_detailed).             *)

\* ratio < hundredths / 100, for the exact fraction ratio = <<num, den>>.
RatioLess(ratio, hundredths) == ratio[1] * 100 < hundredths * ratio[2]

\* The same chain with inclusive bounds.
get_grade_inclusive(cnt, tot) ==
    IF tot = 0 THEN "A"
    ELSE LET ratio == <<cnt, tot>> IN
         IF ratio[1] * 100 <= 1 * ratio[2] THEN "A"
         ELSE IF ratio[1] * 100 <= 5 * ratio[2] THEN "B"
         ELSE IF ratio[1] * 100 <= 10 * ratio[2] THEN "C"
         ELSE IF ratio[1] * 100 <= 20 * ratio[2] THEN "D"
         ELSE "E"

\* The chain without the guard on total = 0: no band holds a ratio over 0.
get_grade_unguarded(cnt, tot) ==
    LET ratio == <<cnt, tot>> IN
    IF RatioLess(ratio, 1) THEN "A"
    ELSE IF RatioLess(ratio, 5) THEN "B"
    ELSE IF RatioLess(ratio, 10) THEN "C"
    ELSE IF RatioLess(ratio, 20) THEN "D"
    ELSE "E"

get_grade(cnt, tot) ==
    IF tot = 0 THEN "A"
    ELSE LET ratio == <<cnt, tot>> IN
         IF RatioLess(ratio, 1) THEN "A"
         ELSE IF RatioLess(ratio, 5) THEN "B"
         ELSE IF RatioLess(ratio, 10) THEN "C"
         ELSE IF RatioLess(ratio, 20) THEN "D"
         ELSE "E"

---------------------------------------------------------------------------
(* _calculate_acid_scores_detailed.                                        *)

\* A score is held as an integer number of tenths: 100 is InTenths(100), and
\* the factors 0.1 and 0.2 of the source are 1 and 2 tenths.
InTenths(x) == x * 10

IssueTypes == {"bug", "code_smell", "vulnerability"}

\* len([issue for issue in quality_issues if issue.type == t]): the list of
\* quality issues is modelled by the number of its entries of each type.
CountTyped(issues, t) == issues[t]

NoAcid == [status |-> "none"]

\* The scores without the max(0, ...) clamp.
AcidScoresUnclamped(metrics, vulns, issues) ==
    LET total_files == Get(metrics, "total_files", 0)
        bugs == CountTyped(issues, "bug")
        code_smells == CountTyped(issues, "code_smell")
        vulnerabilities_count == vulns
    IN  [status |-> "returned",
         bugs |-> bugs,
         vulnerabilities |-> vulnerabilities_count,
         code_smells |-> code_smells,
         bugs_grade |-> get_grade(bugs, total_files),
         vulnerabilities_grade |-> get_grade(vulnerabilities_count, total_files),
         code_smells_grade |-> get_grade(code_smells, total_files),
         quality_score |-> InTenths(100) - bugs * InTenths(5)
                             - vulnerabilities_count * InTenths(20) - code_smells * 1,
         security_score |-> InTenths(100) - vulnerabilities_count * InTenths(30),
         maintainability_score |-> InTenths(100) - code_smells * 2,
         reliability_score |-> InTenths(100) - bugs * InTenths(10)]

\* The security score charged 20 per vulnerability, as the quality score is.
AcidScoresSwapped(metrics, vulns, issues) ==
    LET total_files == Get(metrics, "total_files", 0)
        bugs == CountTyped(issues, "bug")
        code_smells == CountTyped(issues, "code_smell")
        vulnerabilities_count == vulns
    IN  [status |-> "returned",
         bugs |-> bugs,
         vulnerabilities |-> vulnerabilities_count,
         code_smells |-> code_smells,
         bugs_grade |-> get_grade(bugs, total_files),
         vulnerabilities_grade |-> get_grade(vulnerabilities_count, total_files),
         code_smells_grade |-> get_grade(code_smells, total_files),
         quality_score |-> Max(0, InTenths(100) - bugs * InTenths(5)
                             - vulnerabilities_count * InTenths(20) - code_smells * 1),
         security_score |-> Max(0, InTenths(100) - vulnerabilities_count * InTenths(20)),
         maintainability_score |-> Max(0, InTenths(100) - code_smells * 2),
         reliability_score |-> Max(0, InTenths(100) - bugs * InTenths(10))]

calculate_acid_scores_detailed(metrics, vulns, issues) ==
    LET total_files == Get(metrics, "total_files", 0)
        bugs == CountTyped(issues, "bug")
        code_smells == CountTyped(issues, "code_smell")
        vulnerabilities_count == vulns
    IN  [status |-> "returned",
         bugs |-> bugs,
         vulnerabilities |-> vulnerabilities_count,
         code_smells |-> code_smells,
         bugs_grade |-> get_grade(bugs, total_files),
         vulnerabilities_grade |-> get_grade(vulnerabilities_count, total_files),
         code_smells_grade |-> get_grade(code_smells, total_files),
         quality_score |-> Max(0, InTenths(100) - bugs * InTenths(5)
                             - vulnerabilities_count * InTenths(20) - code_smells * 1),
         security_score |-> Max(0, InTenths(100) - vulnerabilities_count * InTenths(30)),
         maintainability_score |-> Max(0, InTenths(100) - code_smells * 2),
         reliability_score |-> Max(0, InTenths(100) - bugs * InTenths(10))]

---------------------------------------------------------------------------
(* Claims about get_grade and the score formulas.                          *)

\* C1: for every count >= 0 and total >= 0, get_grade returns A when
\* total = 0, and otherwise the first matching band of ratio = count/total:
\* A below 0.01, B below 0.05, C below 0.10, D below 0.20, else E; a ratio
\* exactly 0.01, 0.05, 0.10 or 0.20 maps to B, C, D and E.
C1_GradeBands ==
    grade # "none" =>
        /\ total = 0 => grade = "A"
        /\ total > 0 =>
              /\ grade = "A" <=> 100 * count < total
              /\ grade = "B" <=> (100 * count >= total /\ 20 * count < total)
              /\ grade = "C" <=> (20 * count >= total /\ 10 * count < total)
              /\ grade = "D" <=> (10 * count >= total /\ 5 * count < total)
              /\ grade = "E" <=> 5 * count >= total
              /\ 100 * count = total => grade = "B"
              /\ 20 * count = total => grade = "C"
              /\ 10 * count = total => grade = "D"
              /\ 5 * count = total => grade = "E"

\* get_grade has answered B for the ratio 1/100, exactly 0.01.
C1_Witness == grade = "B" /\ count = 1 /\ total = 100

\* C2: for all non-negative bugs, vulnerabilities and code_smells the
\* function returns quality = max(0, 100 - 5 bugs - 20 vulnerabilities -
\* 0.1 code_smells), security = max(0, 100 - 30 vulnerabilities),
\* maintainability = max(0, 100 - 0.2 code_smells) and reliability =
\* max(0, 100 - 10 bugs)  (all in tenths here).
C2_ScoreFormulas ==
    acid_scores.status = "returned" =>
        LET b == quality_issues["bug"]
            s == quality_issues["code_smell"]
            v == vulnerabilities
        IN  /\ acid_scores.bugs = b
            /\ acid_scores.code_smells = s
            /\ acid_scores.vulnerabilities = v
            /\ acid_scores.quality_score = Max(0, 1000 - 50 * b - 200 * v - s)
            /\ acid_scores.security_score = Max(0, 1000 - 300 * v)
            /\ acid_scores.maintainability_score = Max(0, 1000 - 2 * s)
            /\ acid_scores.reliability_score = Max(0, 1000 - 100 * b)

\* Scores returned for 1 bug, 2 vulnerabilities and 3 code smells:
\* quality 54.7, security 40, maintainability 99.4, reliability 90.
C2_Witness ==
    /\ acid_scores.status = "returned"
    /\ quality_issues["bug"] = 1 /\ vulnerabilities = 2
    /\ quality_issues["code_smell"] = 3
    /\ acid_scores.quality_score = 547
    /\ acid_scores.security_score = 400
    /\ acid_scores.maintainability_score = 994
    /\ acid_scores.reliability_score = 900

ScoreFields ==
    {"quality_score", "security_score", "maintainability_score", "reliability_score"}

\* C3: each of the four scores is non-increasing in each count that drives
\* it (one more bug, vulnerability or code smell never raises a score), and
\* no score is below 0.
C3_MonotoneNonNegative ==
    acid_scores.status = "returned" =>
        LET more(t) == [quality_issues EXCEPT ![t] = @ + 1]
            moreBugs == calculate_acid_scores_detailed(code_metrics, vulnerabilities,
                                                       more("bug"))
            moreSmells == calculate_acid_scores_detailed(code_metrics, vulnerabilities,
                                                         more("code_smell"))
            moreVulns == calculate_acid_scores_detailed(code_metrics, vulnerabilities + 1,
                                                        quality_issues)
        IN  \A f \in ScoreFields :
               /\ acid_scores[f] >= 0
               /\ moreBugs[f] <= acid_scores[f]
               /\ moreSmells[f] <= acid_scores[f]
               /\ moreVulns[f] <= acid_scores[f]
               /\ moreBugs[f] >= 0 /\ moreSmells[f] >= 0 /\ moreVulns[f] >= 0

\* Scores returned where every clamp acts: 11 bugs, 5 vulnerabilities and
\* 501 code smells leave all four scores at 0.
C3_Witness ==
    /\ acid_scores.status = "returned"
    /\ quality_issues["bug"] = 11 /\ vulnerabilities = 5
    /\ quality_issues["code_smell"] = 501
    /\ \A f \in ScoreFields : acid_scores[f] = 0

---------------------------------------------------------------------------
(* Strings.  A Python str is the sequence of its code points, so that      *)
(* lower(), the substring test and the < of two strings are computed.      *)

Str_jquery == <<106, 113, 117, 101, 114, 121>>      \* 'jquery'
Str_3_0_0  == <<51, 46, 48, 46, 48>>                \* '3.0.0'
Str_latest == <<108, 97, 116, 101, 115, 116>>       \* 'latest'

\* str.lower(), on the ASCII letters.
Lower(s) == [i \in 1..Len(s) |-> IF s[i] \in 65..90 THEN s[i] + 32 ELSE s[i]]

\* sub in s
Contains(sub, s) ==
    \E i \in 0..(Len(s) - Len(sub)) : SubSeq(s, i + 1, i + Len(sub)) = sub

\* a < b for two str: the first differing code point decides, and a proper
\* prefix is the smaller.
RECURSIVE StrLess(_, _)
StrLess(a, b) ==
    IF b = <<>> THEN FALSE
    ELSE IF a = <<>> THEN TRUE
    ELSE IF a[1] # b[1] THEN a[1] < b[1]
    ELSE StrLess(Tail(a), Tail(b))

\* The decimal digits of n.
RECURSIVE FormatNat(_)
FormatNat(n) ==
    IF n < 10 THEN <<48 + n>> ELSE FormatNat(n \div 10) \o <<48 + (n % 10)>>

\* The numbers of a version: its leading decimal numbers, as a version
\* parser reads them ("10.0.0" is <<10, 0, 0>>).
RECURSIVE ParseVersion(_, _, _)
ParseVersion(s, acc, inNum) ==
    IF s = <<>> THEN (IF inNum THEN <<acc>> ELSE <<>>)
    ELSE IF s[1] \in 48..57 THEN ParseVersion(Tail(s), acc * 10 + (s[1] - 48), TRUE)
    ELSE IF s[1] = 46 /\ inNum THEN <<acc>> \o ParseVersion(Tail(s), 0, FALSE)
    ELSE (IF inNum THEN <<acc>> ELSE <<>>)

\* Order of two versions by their numbers.
RECURSIVE NumbersLess(_, _)
NumbersLess(a, b) ==
    IF b = <<>> THEN FALSE
    ELSE IF a = <<>> THEN TRUE
    ELSE IF a[1] # b[1] THEN a[1] < b[1]
    ELSE NumbersLess(Tail(a), Tail(b))

---------------------------------------------------------------------------
(* _check_dependency_vulnerabilities.                                      *)

JQueryXss ==
    [severity |-> "high", type |-> "XSS",
     description |-> "jQuery XSS vulnerability",
     file |-> "package.json", line |-> 0, cwe_id |-> "CWE-79"]

\* The same check with the versions compared by their numbers.
CheckDependencySemver(nm, ver) ==
    IF Contains(Str_jquery, Lower(nm))
       /\ NumbersLess(ParseVersion(ver, 0, FALSE), ParseVersion(Str_3_0_0, 0, FALSE))
    THEN <<JQueryXss>>
    ELSE <<>>

check_dependency_vulnerabilities(nm, ver) ==
    IF Contains(Str_jquery, Lower(nm)) /\ StrLess(ver, Str_3_0_0)
    THEN <<JQueryXss>>
    ELSE <<>>

\* The names and versions tried.
SampleCores ==
    { Str_jquery,
      <<74, 81, 117, 101, 114, 121>>,                \* 'JQuery'
      <<74, 81, 85, 69, 82, 89>>,                    \* 'JQUERY'
      <<106, 113, 117, 101, 114>>,                   \* 'jquer'
      <<113, 117, 101, 114, 121>>,                   \* 'query'
      <<114, 101, 97, 99, 116>> }                    \* 'react'
SamplePrefixes == { <<>>, <<64, 116, 47>> }          \* '', '@t/'
SampleSuffixes == { <<>>, <<45, 117, 105>> }         \* '', '-ui'
SampleNames ==
    { pre \o core \o suf :
        pre \in SamplePrefixes, core \in SampleCores, suf \in SampleSuffixes }

Dotted(nums) ==
    IF Len(nums) = 1 THEN FormatNat(nums[1])
    ELSE IF Len(nums) = 2 THEN FormatNat(nums[1]) \o <<46>> \o FormatNat(nums[2])
    ELSE FormatNat(nums[1]) \o <<46>> \o FormatNat(nums[2]) \o <<46>> \o FormatNat(nums[3])

NumericVersions ==
    { Dotted(nums) : nums \in UNION { [1..k -> 0..MaxVerNum] : k \in 1..3 } }

SampleVersions ==
    NumericVersions
      \cup { <<94>> \o v : v \in NumericVersions }   \* '^' and a version
      \cup { Str_latest, <<>> }

NoResult == "none"

---------------------------------------------------------------------------
(* The pattern scanners: the body of the per-file loop of                  *)
(* _analyze_security_vulnerabilities and _analyze_code_quality_issues.     *)
(*                                                                         *)
(* A file's content is a sequence of pieces.  A piece is the newline       *)
(* character, or a run of text without a newline; the content is cut       *)
(* wherever a match of some pattern starts, so a match starts at the first *)
(* character of a piece.  A piece carries the answer of the regular-       *)
(* expression engine: the patterns that have a match starting there.  The  *)
(* offset of a match is the position of its piece (from 1; the offsets of  *)
(* Python are from 0), and the content before it is the pieces before it.  *)

\* security_patterns, in the order of the dict; a pattern is named by the
\* literal it starts with.
security_patterns ==
    << [type |-> "sql_injection",
        patterns |-> <<"SELECT", "INSERT", "UPDATE", "DELETE">>],
       [type |-> "xss",
        patterns |-> <<"innerHTML", "document.write", "eval">>],
       [type |-> "path_traversal",
        patterns |-> <<"../", "..\\", "%2e%2e%2f">>],
       [type |-> "hardcoded_secrets",
        patterns |-> <<"password", "api_key", "secret">>] >>

\* quality_patterns, in the order of the dict: one pattern per issue type.
quality_patterns ==
    << [type |-> "long_function", patterns |-> <<"long_function">>],
       [type |-> "long_parameter_list", patterns |-> <<"long_parameter_list">>],
       [type |-> "duplicate_code", patterns |-> <<"duplicate_code">>],
       [type |-> "magic_numbers", patterns |-> <<"magic_numbers">>],
       [type |-> "empty_catch", patterns |-> <<"empty_catch">>],
       [type |-> "todo_comments", patterns |-> <<"todo_comments">>] >>

\* The concatenation of the sequences ss[i], ss[i + 1], ...
RECURSIVE FlattenFrom(_, _)
FlattenFrom(ss, i) == IF i > Len(ss) THEN <<>> ELSE ss[i] \o FlattenFrom(ss, i + 1)

Flatten(ss) == FlattenFrom(ss, 1)

\* re.search in the place of re.finditer: the first match only.
RECURSIVE search_first(_, _, _)
search_first(pattern, text, from) ==
    IF from > Len(text) THEN <<>>
    ELSE IF pattern \in text[from].starts THEN <<from>>
    ELSE search_first(pattern, text, from + 1)

\* re.finditer(pattern, content, flags): the starts of the matches of the
\* pattern, from left to right, at or after `from`.
RECURSIVE finditer(_, _, _)
finditer(pattern, text, from) ==
    IF from > Len(text) THEN <<>>
    ELSE (IF pattern \in text[from].starts THEN <<from>> ELSE <<>>)
            \o finditer(pattern, text, from + 1)

\* s.count('\n')
CountNewlines(s) == Cardinality({i \in 1..Len(s) : s[i].nl})

\* The line number counted from 0.
LineNumFromZero(text, start) == CountNewlines(SubSeq(text, 1, start - 1))

\* content[:match.start()].count('\n') + 1
LineNum(text, start) == CountNewlines(SubSeq(text, 1, start - 1)) + 1

SecurityVulnerability(vuln_type, file_path, line_num) ==
    [severity |-> "medium", type |-> vuln_type,
     description |-> <<"Potential", vuln_type, "vulnerability">>,
     file |-> file_path, line |-> line_num]

\* The issue typed as a bug.
CodeQualityIssueBug(issue_type, file_path, line_num) ==
    [type |-> "bug", severity |-> "minor",
     message |-> <<"Potential", issue_type, "issue">>,
     file |-> file_path, line |-> line_num, rule |-> issue_type,
     effort |-> "5min"]

\* The issue with a severity of the scale of the vulnerabilities.
CodeQualityIssueLow(issue_type, file_path, line_num) ==
    [type |-> "code_smell", severity |-> "low",
     message |-> <<"Potential", issue_type, "issue">>,
     file |-> file_path, line |-> line_num, rule |-> issue_type,
     effort |-> "5min"]

CodeQualityIssue(issue_type, file_path, line_num) ==
    [type |-> "code_smell", severity |-> "minor",
     message |-> <<"Potential", issue_type, "issue">>,
     file |-> file_path, line |-> line_num, rule |-> issue_type,
     effort |-> "5min"]

\* The loops with the findings of a file sorted by line afterwards: the
\* types taken where they first occur in the content.
ScanSecurityByOffset(file_path, text) ==
    Flatten([i \in 1..Len(text) |->
        Flatten([v \in 1..Len(security_patterns) |->
            Flatten([p \in 1..Len(security_patterns[v].patterns) |->
               IF security_patterns[v].patterns[p] \in text[i].starts
               THEN <<SecurityVulnerability(security_patterns[v].type, file_path,
                                            LineNum(text, i))>>
               ELSE <<>>])])])

\* Lines 557-568: the findings of one file's content.
ScanSecurityContent(file_path, text) ==
    Flatten([v \in 1..Len(security_patterns) |->
        Flatten([p \in 1..Len(security_patterns[v].patterns) |->
            LET matches == finditer(security_patterns[v].patterns[p], text, 1)
            IN  [m \in 1..Len(matches) |->
                    SecurityVulnerability(security_patterns[v].type, file_path,
                                          LineNum(text, matches[m]))]])])

\* Lines 597-609: the issues of one file's content.
ScanQualityContent(file_path, text) ==
    Flatten([v \in 1..Len(quality_patterns) |->
        Flatten([p \in 1..Len(quality_patterns[v].patterns) |->
            LET matches == finditer(quality_patterns[v].patterns[p], text, 1)
            IN  [m \in 1..Len(matches) |->
                    CodeQualityIssue(quality_patterns[v].type, file_path,
                                     LineNum(text, matches[m]))]])])

\* The pieces tried.
Newline  == [nl |-> TRUE, starts |-> {}]
Text     == [nl |-> FALSE, starts |-> {}]
Password == [nl |-> FALSE, starts |-> {"password"}]   \* password = "x"
Eval     == [nl |-> FALSE, starts |-> {"eval"}]       \* eval(
DefDef   == [nl |-> FALSE,                \* def f(a,b,c,d,e,g): 0; def f(): 0
             starts |-> {"long_parameter_list", "duplicate_code"}]
SamplePieces == {Newline, Text, Password, Eval, DefDef}

SampleContents == UNION { [1..n -> SamplePieces] : n \in 0..MaxLen }

ScanPath == "repo/app.py"

---------------------------------------------------------------------------
(* The cloned tree.                                                        *)
(*                                                                         *)
(* tree is the sequence of the files below repo_dir, in the order os.walk  *)
(* meets them.  A name is [dot, stem]: dot says that it starts with '.'.   *)
(* A file is [dirs, file, ext, readable, text, syntax_ok, defs, re]:       *)
(*   dirs       the names of the directories from the root to the file;    *)
(*   ext        what endswith() tests: "py", "js", ...;                    *)
(*   readable   open(..., encoding='utf-8').read() succeeds;               *)
(*   text       the content, in pieces (see the pattern scanners);         *)
(*   syntax_ok  ast.parse(content) succeeds;                               *)
(*   defs       [functions, classes, imports]: for a Python file the       *)
(*              FunctionDef, ClassDef and Import/ImportFrom nodes of its   *)
(*              syntax tree, for a JavaScript file the matches of the      *)
(*              function, class and import patterns of _analyze_js_metrics;*)
(*   re         [functions, conditionals, loops]: the matches of the       *)
(*              patterns of _calculate_complexity_metrics.                 *)

Dir(stem)    == [dot |-> FALSE, stem |-> stem]
DotDir(stem) == [dot |-> TRUE, stem |-> stem]

\* dirs[:] = [d for d in dirs if not d.startswith('.')]: os.walk does not
\* descend into a directory whose name starts with '.'.
Pruned(f) == \E i \in 1..Len(f.dirs) : f.dirs[i].dot

RECURSIVE SumSeq(_)
SumSeq(ns) == IF ns = <<>> THEN 0 ELSE Head(ns) + SumSeq(Tail(ns))

\* The walk with the hidden directories left out of what it yields, but
\* descended into.
WalkFilesShallow(files, exts) ==
    LET Keep(f) == /\ ~ (f.dirs # <<>> /\ f.dirs[Len(f.dirs)].dot)
                   /\ f.ext \in exts
    IN  SelectSeq(files, Keep)

\* The files os.walk yields whose name ends with one of the extensions.
WalkFiles(files, exts) ==
    LET Keep(f) == ~ Pruned(f) /\ f.ext \in exts IN SelectSeq(files, Keep)

PyExts   == {"py"}
JsExts   == {"js", "ts", "jsx", "tsx"}
CodeExts == {"py", "js", "ts", "java", "php", "rb"}

---------------------------------------------------------------------------
(* _analyze_code_metrics_advanced, _analyze_python_metrics and             *)
(* _analyze_js_metrics.                                                    *)
(*                                                                         *)
(* cloc is what the line counter does: [outcome, nFiles, code], outcome    *)
(* "missing" (subprocess.run raises), "failed" (a non-zero return code),   *)
(* "garbled" (json.loads raises on its output) or "ok".                    *)

InitialMetrics ==
    [total_lines |-> 0, total_files |-> 0,
     function_count |-> 0, class_count |-> 0, import_count |-> 0]

\* The per-file loop of _analyze_python_metrics with the try around the
\* whole loop: the first failing file ends the counting.
RECURSIVE CountUntilFailure(_, _)
CountUntilFailure(files, field) ==
    IF files = <<>> THEN 0
    ELSE IF ~ (Head(files).readable /\ Head(files).syntax_ok) THEN 0
    ELSE Head(files).defs[field] + CountUntilFailure(Tail(files), field)

PythonMetricsOneTry(files, metrics) ==
    LET python_files == WalkFiles(files, PyExts)
    IN  [metrics EXCEPT
            !.function_count = CountUntilFailure(python_files, "functions"),
            !.class_count = CountUntilFailure(python_files, "classes"),
            !.import_count = CountUntilFailure(python_files, "imports")]

\* Lines 370-404.  A file that cannot be read or parsed raises inside the
\* try of its own iteration, before any of its nodes is counted.
analyze_python_metrics(files, metrics) ==
    LET python_files == WalkFiles(files, PyExts)
        Counted(field) ==
            LET Val(f) == IF f.readable /\ f.syntax_ok THEN f.defs[field] ELSE 0
            IN  SumSeq([i \in 1..Len(python_files) |-> Val(python_files[i])])
    IN  [metrics EXCEPT !.function_count = Counted("functions"),
                        !.class_count = Counted("classes"),
                        !.import_count = Counted("imports")]

\* The script pass storing its counts as the Python pass does, with `=`.
JsMetricsOverwrite(files, metrics) ==
    LET js_files == WalkFiles(files, JsExts)
        Counted(field) ==
            LET Val(f) == IF f.readable THEN f.defs[field] ELSE 0
            IN  SumSeq([i \in 1..Len(js_files) |-> Val(js_files[i])])
    IN  [metrics EXCEPT !.function_count = Counted("functions"),
                        !.class_count = Counted("classes"),
                        !.import_count = Counted("imports")]

\* Lines 406-438.
analyze_js_metrics(files, metrics) ==
    LET js_files == WalkFiles(files, JsExts)
        Counted(field) ==
            LET Val(f) == IF f.readable THEN f.defs[field] ELSE 0
            IN  SumSeq([i \in 1..Len(js_files) |-> Val(js_files[i])])
    IN  [metrics EXCEPT !.function_count = @ + Counted("functions"),
                        !.class_count = @ + Counted("classes"),
                        !.import_count = @ + Counted("imports")]

\* Lines 328-368.
analyze_code_metrics_advanced(files, tool) ==
    IF tool.outcome \in {"missing", "garbled"}
    THEN InitialMetrics                       \* the except branch
    ELSE LET counted == IF tool.outcome = "ok"
                        THEN [InitialMetrics EXCEPT !.total_lines = tool.code,
                                                    !.total_files = tool.nFiles]
                        ELSE InitialMetrics   \* returncode # 0
         IN  analyze_js_metrics(files, analyze_python_metrics(files, counted))

---------------------------------------------------------------------------
(* Exceptions.  A call that may raise answers [raised, value].             *)

Returned(v) == [raised |-> FALSE, value |-> v]
Raise       == [raised |-> TRUE, value |-> <<>>]

---------------------------------------------------------------------------
(* _extract_dependencies_detailed.                                         *)
(*                                                                         *)
(* manifests is [package_json, requirements_txt, pipfile].                 *)
(*   package_json: [exists, parse_ok, dependencies, devDependencies,       *)
(*     scripts]; the two maps are sequences of [name, version] in the      *)
(*     order of the file.  A version that is not a JSON string is <<-1>>.  *)
(*   requirements_txt: [exists, lines, fail_at]; reading line fail_at      *)
(*     raises (0: no line does).                                           *)
(*   pipfile: [exists, parse_ok, packages, dev_packages], the two tables   *)
(*     being the sequences of their names.  The function does not open it. *)

NotAString == <<-1>>
IsString(v) == \A i \in 1..Len(v) : v[i] >= 0

DependencyInfo(nm, ver, type) ==
    [name |-> nm, version |-> ver, type |-> type,
     vulnerabilities |-> check_dependency_vulnerabilities(nm, ver)]

\* version < '3.0.0' raises TypeError for a version that is not a str; the
\* `and` evaluates it only for a name that contains 'jquery'.
CheckRaises(nm, ver) == Contains(Str_jquery, Lower(nm)) /\ ~ IsString(ver)

\* One of the two loops over a map of package.json: [raised, value], value
\* being the records appended before the loop ended.
RECURSIVE PackageLoop(_, _)
PackageLoop(entries, type) ==
    IF entries = <<>> THEN Returned(<<>>)
    ELSE IF CheckRaises(Head(entries).name, Head(entries).version) THEN Raise
    ELSE LET rest == PackageLoop(Tail(entries), type)
         IN  [raised |-> rest.raised,
              value |-> <<DependencyInfo(Head(entries).name, Head(entries).version,
                                         type)>> \o rest.value]

\* The two loops in the other order.
PackageJsonDevFirst(pkg) ==
    IF ~ pkg.exists \/ ~ pkg.parse_ok THEN <<>>
    ELSE LET dev == PackageLoop(pkg.devDependencies, "dev")
         IN  IF dev.raised THEN dev.value
             ELSE dev.value \o PackageLoop(pkg.dependencies, "direct").value

\* Lines 444-472.  The records are appended to the list as they are made:
\* what was appended before an exception stays.
PackageJsonRecords(pkg) ==
    IF ~ pkg.exists \/ ~ pkg.parse_ok THEN <<>>
    ELSE LET direct == PackageLoop(pkg.dependencies, "direct")
         IN  IF direct.raised THEN direct.value
             ELSE direct.value \o PackageLoop(pkg.devDependencies, "dev").value

IsSpace(c) == c \in {9, 10, 11, 12, 13, 32}

RECURSIVE LStrip(_)
LStrip(s) == IF s # <<>> /\ IsSpace(Head(s)) THEN LStrip(Tail(s)) ELSE s

RECURSIVE RStrip(_)
RStrip(s) ==
    IF s # <<>> /\ IsSpace(s[Len(s)]) THEN RStrip(SubSeq(s, 1, Len(s) - 1)) ELSE s

\* str.strip()
Strip(s) == RStrip(LStrip(s))

\* str.split('=='): cur is the part being read.
RECURSIVE SplitEq(_, _)
SplitEq(s, cur) ==
    IF s = <<>> THEN <<cur>>
    ELSE IF Len(s) >= 2 /\ s[1] = 61 /\ s[2] = 61
         THEN <<cur>> \o SplitEq(SubSeq(s, 3, Len(s)), <<>>)
    ELSE SplitEq(Tail(s), Append(cur, Head(s)))

\* The loop with the '#' looked for at the start of the line as read, not
\* of the stripped line.
RECURSIVE RequirementsLoopRawComment(_, _, _)
RequirementsLoopRawComment(lines, k, fail_at) ==
    IF k > Len(lines) \/ k = fail_at THEN <<>>
    ELSE LET line == Strip(lines[k])
             parts == SplitEq(line, <<>>)
             nm == parts[1]
             ver == IF Len(parts) > 1 THEN parts[2] ELSE Str_latest
         IN  (IF line # <<>> /\ lines[k][1] # 35
              THEN <<DependencyInfo(nm, ver, "direct")>>
              ELSE <<>>) \o RequirementsLoopRawComment(lines, k + 1, fail_at)

\* Lines 479-492, from line k of the file on.
RECURSIVE RequirementsLoop(_, _, _)
RequirementsLoop(lines, k, fail_at) ==
    IF k > Len(lines) \/ k = fail_at THEN <<>>
    ELSE LET line == Strip(lines[k])
             parts == SplitEq(line, <<>>)
             nm == parts[1]
             ver == IF Len(parts) > 1 THEN parts[2] ELSE Str_latest
         IN  (IF line # <<>> /\ line[1] # 35       \* not line.startswith('#')
              THEN <<DependencyInfo(nm, ver, "direct")>>
              ELSE <<>>) \o RequirementsLoop(lines, k + 1, fail_at)

\* Lines 474-495.
RequirementsRecords(req) ==
    IF ~ req.exists THEN <<>> ELSE RequirementsLoop(req.lines, 1, req.fail_at)

\* Lines 440-497.
extract_dependencies_detailed(m) ==
    PackageJsonRecords(m.package_json) \o RequirementsRecords(m.requirements_txt)

---------------------------------------------------------------------------
(* _analyze_security_vulnerabilities and _analyze_code_quality_issues,     *)
(* over the tree.                                                          *)

\* os.path.join(root, file)
FilePath(f) == [dirs |-> f.dirs, file |-> f.file, ext |-> f.ext]

\* The try of one file without its except: the failure leaves the function.
SecurityFileUncaught(f) ==
    IF f.readable THEN Returned(ScanSecurityContent(FilePath(f), f.text)) ELSE Raise

\* Lines 551-570: one file of the walk.  open or read raises for a file that
\* cannot be read or decoded, before any pattern is tried; the except prints.
security_file(f) ==
    IF f.readable THEN Returned(ScanSecurityContent(FilePath(f), f.text))
    ELSE Returned(<<>>)

\* Lines 592-611.
quality_file(f) ==
    IF f.readable THEN Returned(ScanQualityContent(FilePath(f), f.text))
    ELSE Returned(<<>>)

\* Lines 518-572: the walk, each file with its own try.
analyze_security_vulnerabilities(files) ==
    LET walked == WalkFiles(files, CodeExts)
    IN  IF \E i \in 1..Len(walked) : security_file(walked[i]).raised THEN Raise
        ELSE Returned(Flatten([i \in 1..Len(walked) |->
                                  security_file(walked[i]).value]))

\* Lines 574-613.
analyze_code_quality_issues(files) ==
    LET walked == WalkFiles(files, CodeExts)
    IN  IF \E i \in 1..Len(walked) : quality_file(walked[i]).raised THEN Raise
        ELSE Returned(Flatten([i \in 1..Len(walked) |->
                                  quality_file(walked[i]).value]))

---------------------------------------------------------------------------
(* _detect_architecture_patterns.                                          *)

\* os.path.exists(os.path.join(repo_dir, nm)): a directory of the clone holds
\* a file, so the entries of the root are the first directories of the
\* files and the files of the root itself.
Exists(files, nm) ==
    \E i \in 1..Len(files) :
        \/ Len(files[i].dirs) >= 1 /\ files[i].dirs[1] = Dir(nm)
        \/ files[i].dirs = <<>> /\ files[i].file = Dir(nm) /\ files[i].ext = ""

\* The detection with a pattern emitted only when all its directories
\* are there.
DetectArchitectureAllCues(files) ==
    (IF Exists(files, "models") /\ Exists(files, "views") /\ Exists(files, "controllers")
     THEN << [pattern |-> "MVC", confidence |-> 8,
              evidence |-> <<"MVC directory structure detected">>,
              files |-> <<"models/", "views/", "controllers/">>] >>
     ELSE <<>>)
    \o
    (IF Exists(files, "services") /\ Exists(files, "microservices")
     THEN << [pattern |-> "Microservices", confidence |-> 7,
              evidence |-> <<"Microservices directory structure detected">>,
              files |-> <<"services/", "microservices/">>] >>
     ELSE <<>>)

\* Lines 615-649.  confidence is in tenths.
detect_architecture_patterns(files) ==
    (IF Exists(files, "models") \/ Exists(files, "views") \/ Exists(files, "controllers")
     THEN << [pattern |-> "MVC", confidence |-> 8,
              evidence |-> <<"MVC directory structure detected">>,
              files |-> <<"models/", "views/", "controllers/">>] >>
     ELSE <<>>)
    \o
    (IF Exists(files, "services") \/ Exists(files, "microservices")
     THEN << [pattern |-> "Microservices", confidence |-> 7,
              evidence |-> <<"Microservices directory structure detected">>,
              files |-> <<"services/", "microservices/">>] >>
     ELSE <<>>)

---------------------------------------------------------------------------
(* _calculate_complexity_metrics and _analyze_performance_metrics.         *)

\* Lines 796-826: total_functions, total_conditionals and total_loops after
\* the walk.  A file that cannot be read adds nothing.
ComplexityTotals(files) ==
    LET scanned == WalkFiles(files, CodeExts)
        Of(field) == LET Val(f) == IF f.readable THEN f.re[field] ELSE 0
                     IN  SumSeq([i \in 1..Len(scanned) |-> Val(scanned[i])])
    IN  [functions |-> Of("functions"), conditionals |-> Of("conditionals"),
         loops |-> Of("loops")]

\* The estimate without the functions in the numerator.
ComplexityOfBranchesOnly(files) ==
    LET totals == ComplexityTotals(files)
        cyclomatic == IF totals.functions > 0
                      THEN <<totals.conditionals + totals.loops, totals.functions>>
                      ELSE <<0, 1>>
    IN  [cyclomatic_complexity |-> cyclomatic,
         cognitive_complexity |-> <<0, 1>>,
         maintainability_index |->
             <<Max(0, 100 * cyclomatic[2] - cyclomatic[1] * 10), cyclomatic[2]>>]

\* Lines 790-835.  The two values are fractions <<numerator, denominator>>.
calculate_complexity_metrics(files) ==
    LET totals == ComplexityTotals(files)
        total_functions == totals.functions
        total_conditionals == totals.conditionals
        total_loops == totals.loops
        cyclomatic == IF total_functions > 0
                      THEN <<total_conditionals + total_loops + total_functions,
                             total_functions>>
                      ELSE <<0, 1>>
    IN  [cyclomatic_complexity |-> cyclomatic,
         cognitive_complexity |-> <<0, 1>>,
         maintainability_index |->
             <<Max(0, 100 * cyclomatic[2] - cyclomatic[1] * 10), cyclomatic[2]>>]

\* Lines 843-869.
analyze_performance_metrics(m) ==
    LET pkg == m.package_json
        Points(script) == IF script \in pkg.scripts THEN 20 ELSE 0
    IN  [bundle_size |-> 0, load_time |-> 0,
         performance_score |->
             IF pkg.exists /\ pkg.parse_ok
             THEN Points("build") + Points("optimize") + Points("minify")
             ELSE 0]

---------------------------------------------------------------------------
(* The trees, tools and manifests tried.                                   *)

Counts(f, c, i) == [functions |-> f, classes |-> c, imports |-> i]
ReCounts(f, c, l) == [functions |-> f, conditionals |-> c, loops |-> l]

File(dirs, stem, ext, readable, text, syntax_ok, defs, re) ==
    [dirs |-> dirs, file |-> Dir(stem), ext |-> ext, readable |-> readable,
     text |-> text, syntax_ok |-> syntax_ok, defs |-> defs, re |-> re]

\* app.py: two functions, a class, an import; a password on line 2.
AppPy == File(<<>>, "app", "py", TRUE, <<Text, Newline, Password>>, TRUE,
              Counts(2, 1, 1), ReCounts(2, 3, 1))
\* bad.py: a syntax error; eval( and a long duplicate def on line 1.
BadPy == File(<<>>, "bad", "py", TRUE, <<Eval, DefDef>>, FALSE,
              Counts(1, 0, 1), ReCounts(1, 1, 0))
\* src/blob.py: bytes that are not UTF-8.
BlobPy == File(<<Dir("src")>>, "blob", "py", FALSE, <<Password>>, FALSE,
               Counts(1, 1, 1), ReCounts(1, 1, 1))
\* src/ui.js
UiJs == File(<<Dir("src")>>, "ui", "js", TRUE, <<Eval, Newline, Eval>>, FALSE,
             Counts(1, 1, 2), ReCounts(1, 1, 0))
\* .git/hook.py: below a hidden directory.
HookPy == File(<<DotDir("git")>>, "hook", "py", TRUE, <<Password>>, TRUE,
               Counts(1, 0, 0), ReCounts(1, 0, 0))
\* notes.txt: not a source file.
NotesTxt == File(<<>>, "notes", "txt", TRUE, <<Password>>, FALSE,
                 Counts(0, 0, 0), ReCounts(0, 0, 0))
\* models/user.java
UserJava == File(<<Dir("models")>>, "user", "java", TRUE, <<Text>>, FALSE,
                 Counts(0, 0, 0), ReCounts(0, 2, 1))

SampleFiles == {AppPy, BadPy, BlobPy, UiJs, HookPy, NotesTxt, UserJava}

\* The trees handed to the analyses of the tree alone.
\* views/page.js, controllers/ctl.py, services/api.py, microservices/m.py
ViewJs == File(<<Dir("views")>>, "page", "js", TRUE, <<Text>>, FALSE,
               Counts(1, 0, 0), ReCounts(1, 0, 0))
CtlPy == File(<<Dir("controllers")>>, "ctl", "py", TRUE, <<Text>>, TRUE,
              Counts(1, 1, 0), ReCounts(1, 1, 0))
ApiPy == File(<<Dir("services")>>, "api", "py", TRUE, <<Text>>, TRUE,
              Counts(1, 0, 1), ReCounts(1, 0, 1))
MicroPy == File(<<Dir("microservices")>>, "m", "py", TRUE, <<Text>>, TRUE,
                Counts(0, 0, 0), ReCounts(0, 0, 0))
\* src/models/deep.py: a models directory that is not at the root.
DeepPy == File(<<Dir("src"), Dir("models")>>, "deep", "py", TRUE, <<Text>>, TRUE,
               Counts(0, 1, 0), ReCounts(0, 0, 0))
\* models: a plain file of that name at the root.
ModelsFile == File(<<>>, "models", "", TRUE, <<Text>>, FALSE,
                   Counts(0, 0, 0), ReCounts(0, 0, 0))
\* src/.cache/x/gen.py: two levels below a hidden directory.
CachePy == File(<<Dir("src"), DotDir("cache"), Dir("x")>>, "gen", "py", TRUE,
                <<Password, Eval>>, TRUE, Counts(1, 1, 1), ReCounts(1, 1, 1))
\* .env.py: a hidden file of the root.
EnvPy == [File(<<>>, "env", "py", TRUE, <<Password>>, TRUE,
               Counts(1, 0, 1), ReCounts(1, 1, 0)) EXCEPT !.file = DotDir("env")]
TreeFiles ==
    {AppPy, BadPy, BlobPy, UiJs, HookPy, UserJava,
     ViewJs, CtlPy, ApiPy, MicroPy, DeepPy, ModelsFile, CachePy, EnvPy}

\* count.py: a Python file that parses, with f functions, c conditionals
\* and l loops, each function a `def`.
CountedFiles ==
    { File(<<>>, "count", "py", TRUE, <<Text>>, TRUE,
           Counts(f, 0, 0), ReCounts(f, c, l)) :
        f \in 0..MaxFunctions, c \in 0..MaxConditionals, l \in 0..MaxLoops }

AnalysedTrees ==
    UNION { { t \in [1..n -> TreeFiles] :
                \A i, j \in 1..n : i # j => t[i] # t[j] } : n \in 0..MaxTreeFiles }
      \cup { <<f>> : f \in CountedFiles }

\* The sequences of distinct files, MaxTreeFiles at most.
SampleTrees ==
    UNION { { t \in [1..n -> SampleFiles] :
                \A i, j \in 1..n : i # j => t[i] # t[j] } : n \in 0..MaxTreeFiles }

Entry(nm, ver) == [name |-> nm, version |-> ver]

PkgAbsent ==
    [exists |-> FALSE, parse_ok |-> FALSE, dependencies |-> <<>>,
     devDependencies |-> <<>>, scripts |-> {}]
PkgBroken ==
    [exists |-> TRUE, parse_ok |-> FALSE, dependencies |-> <<>>,
     devDependencies |-> <<>>, scripts |-> {}]
\* {"dependencies": {"jquery": "2.1.0", "react": "^18.0.0"},
\*  "devDependencies": {"jest": "29.0.0"}, "scripts": {"build": ...}}
PkgJquery ==
    [exists |-> TRUE, parse_ok |-> TRUE,
     dependencies |-> << Entry(Str_jquery, <<50, 46, 49, 46, 48>>),
                         Entry(<<114, 101, 97, 99, 116>>,
                               <<94, 49, 56, 46, 48, 46, 48>>) >>,
     devDependencies |-> << Entry(<<106, 101, 115, 116>>,
                                  <<50, 57, 46, 48, 46, 48>>) >>,
     scripts |-> {"build"}]
SamplePackages == {PkgAbsent, PkgBroken, PkgJquery}

\* "# pin", "flask==2.0", "", "  six ", each with its line end.
PinnedLines ==
    << <<35, 32, 112, 105, 110, 10>>,
       <<102, 108, 97, 115, 107, 61, 61, 50, 46, 48, 10>>,
       <<10>>,
       <<32, 32, 115, 105, 120, 32, 10>> >>
ReqAbsent == [exists |-> FALSE, lines |-> <<>>, fail_at |-> 0]
ReqPinned == [exists |-> TRUE, lines |-> PinnedLines, fail_at |-> 0]
ReqBroken == [exists |-> TRUE, lines |-> PinnedLines, fail_at |-> 3]
SampleRequirements == {ReqAbsent, ReqPinned, ReqBroken}

\* [packages] flask = "*"   [dev-packages] pytest = "*"
PipAbsent ==
    [exists |-> FALSE, parse_ok |-> FALSE, packages |-> <<>>, dev_packages |-> <<>>]
PipFlask ==
    [exists |-> TRUE, parse_ok |-> TRUE,
     packages |-> << <<102, 108, 97, 115, 107>> >>,
     dev_packages |-> << <<112, 121, 116, 101, 115, 116>> >>]
SamplePipfiles == {PipAbsent, PipFlask}

NoManifests ==
    [package_json |-> PkgAbsent, requirements_txt |-> ReqAbsent, pipfile |-> PipAbsent]

\* The manifests handed to _extract_dependencies_detailed alone.
\* "jquery": "2.1.0"   "react": "^18.0.0"   "jquery-ui": {"version": "1.0"}
SampleEntries ==
    { Entry(Str_jquery, <<50, 46, 49, 46, 48>>),
      Entry(<<114, 101, 97, 99, 116>>, <<94, 49, 56, 46, 48, 46, 48>>),
      Entry(Str_jquery \o <<45, 117, 105>>, NotAString) }
\* The keys of a JSON object that json.load answers are distinct.
EntrySeqs ==
    UNION { { d \in [1..k -> SampleEntries] :
                \A i, j \in 1..k : i # j => d[i].name # d[j].name } :
            k \in 0..MaxEntries }
\* "jest": "29.0.0"   "jquery-ui": {"version": "1.0"}
DevSeqs ==
    { <<>>,
      << Entry(<<106, 101, 115, 116>>, <<50, 57, 46, 48, 46, 48>>) >>,
      << Entry(Str_jquery \o <<45, 117, 105>>, NotAString) >> }
ResolvePackages ==
    {PkgAbsent, PkgBroken}
      \cup { [exists |-> TRUE, parse_ok |-> TRUE, dependencies |-> d,
              devDependencies |-> v, scripts |-> {}] :
                d \in EntrySeqs, v \in DevSeqs }

\* "# pin", "flask==2.0", " ", "  six ", "jquery==2.1.0", "  # x", each with
\* its line end.
SampleLines ==
    { <<35, 32, 112, 105, 110, 10>>,
      <<102, 108, 97, 115, 107, 61, 61, 50, 46, 48, 10>>,
      <<32, 10>>,
      <<32, 32, 115, 105, 120, 32, 10>>,
      <<106, 113, 117, 101, 114, 121, 61, 61, 50, 46, 49, 46, 48, 10>>,
      <<32, 32, 35, 32, 120, 10>> }
\* A file of MaxLines lines at most; the read may fail at any of them.
ResolveRequirements ==
    {ReqAbsent}
      \cup { [exists |-> TRUE, lines |-> ls, fail_at |-> k] :
                ls \in UNION { [1..n -> SampleLines] : n \in 0..MaxLines },
                k \in 0..MaxLines }
ResolveManifests ==
    { m \in [package_json : ResolvePackages, requirements_txt : ResolveRequirements,
             pipfile : SamplePipfiles] :
        m.requirements_txt.fail_at <= Len(m.requirements_txt.lines) }

\* The manifests are files of the tree too.
ManifestFiles(m) ==
    (IF m.package_json.exists THEN 1 ELSE 0)
      + (IF m.requirements_txt.exists THEN 1 ELSE 0)
      + (IF m.pipfile.exists THEN 1 ELSE 0)

ClocFails == { [outcome |-> o, nFiles |-> 0, code |-> 0] :
                 o \in {"missing", "failed", "garbled"} }
\* cloc counts files of the tree that it recognises, and some lines in them.
ClocCounts(t, m) ==
    { [outcome |-> "ok", nFiles |-> n, code |-> 10 * n] :
        n \in 0..(Len(t) + ManifestFiles(m)) }

---------------------------------------------------------------------------
(* analyze_repository_detailed, one step per statement.  The requests      *)
(* to the API fill descriptive fields of the result only.                  *)

NoLocals ==
    [code_metrics |-> EmptyDict, dependencies |-> <<>>,
     security_vulnerabilities |-> <<>>, code_quality_issues |-> <<>>,
     architecture_patterns |-> <<>>, acid_scores |-> NoAcid,
     complexity_metrics |-> EmptyDict, performance_metrics |-> EmptyDict]

NoneYet == [status |-> "none"]

\* The types of a list of issues, counted.
TypesOf(issues) ==
    [t \in IssueTypes |-> Cardinality({i \in 1..Len(issues) : issues[i].type = t})]

\* Lines 263-310: the fields of the result that the engine fills.
DetailedRepositoryMetrics(l) ==
    [status |-> "returned",
     total_lines |-> Get(l.code_metrics, "total_lines", 0),
     total_files |-> Get(l.code_metrics, "total_files", 0),
     code_quality_score |-> Get(l.acid_scores, "quality_score", 0),
     security_score |-> Get(l.acid_scores, "security_score", 0),
     maintainability_score |-> Get(l.acid_scores, "maintainability_score", 0),
     reliability_score |-> Get(l.acid_scores, "reliability_score", 0),
     bugs |-> Get(l.acid_scores, "bugs", 0),
     vulnerabilities |-> Get(l.acid_scores, "vulnerabilities", 0),
     code_smells |-> Get(l.acid_scores, "code_smells", 0),
     bugs_grade |-> Get(l.acid_scores, "bugs_grade", "A"),
     vulnerabilities_grade |-> Get(l.acid_scores, "vulnerabilities_grade", "A"),
     code_smells_grade |-> Get(l.acid_scores, "code_smells_grade", "A"),
     security_vulnerabilities |-> l.security_vulnerabilities,
     code_quality_issues |-> l.code_quality_issues,
     dependencies |-> l.dependencies,
     architecture_patterns |-> l.architecture_patterns,
     complexity_metrics |-> l.complexity_metrics,
     performance_metrics |-> l.performance_metrics]

Cloned == repo_dir # "None"

SampleManifests ==
    [package_json : SamplePackages, requirements_txt : SampleRequirements,
     pipfile : SamplePipfiles]

\* The sub-analyses are functions of the clone alone.  Each is tabulated
\* over the clones tried, as the set of the pairs <<clone, answer>>, so that
\* a step looks its answer up.
Lookup(table, key) == (CHOOSE p \in table : p[1] = key)[2]

DependenciesTable ==
    { <<m, extract_dependencies_detailed(m)>> : m \in SampleManifests }
SecurityTable ==
    { <<t, analyze_security_vulnerabilities(t)>> : t \in SampleTrees }
QualityTable ==
    { <<t, analyze_code_quality_issues(t)>> : t \in SampleTrees }
ArchitectureTable ==
    { <<t, detect_architecture_patterns(t)>> : t \in SampleTrees }
ComplexityTable ==
    { <<t, calculate_complexity_metrics(t)>> : t \in SampleTrees }
PerformanceTable ==
    { <<m, analyze_performance_metrics(m)>> : m \in SampleManifests }

\* A sub-analysis has answered r: its value goes to the local `field`, or
\* its exception leaves the try through the finally.
Assign(field, r, next) ==
    IF r.raised
    THEN /\ pc' = "finally"
         /\ result' = [status |-> "raised"]
         /\ UNCHANGED locals
    ELSE /\ pc' = next
         /\ locals' = [locals EXCEPT ![field] = r.value]
         /\ UNCHANGED result

NoCloc == [outcome |-> "missing", nFiles |-> 0, code |-> 0]

passFrame == <<tree, cloc, manifests, repo_dir, temp_dirs>>
notPass   == <<gradeVars, acidVars, depVars, scanVars, clientVars>>

\* Lines 206 and 317-326: git fills a temporary directory with the tree of
\* the repository, or fails and leaves repo_dir None and no tree to read.
\* What the line counter will answer is fixed with the tree.
StepClone ==
    /\ pc = "clone"
    /\ temp_dirs' = temp_dirs \cup {"/tmp/clone"}
    /\ \/ /\ repo_dir' = "/tmp/clone"
          /\ tree' \in SampleTrees
          /\ manifests' \in SampleManifests
          /\ cloc' \in ClocFails \cup ClocCounts(tree', manifests')
       \/ UNCHANGED <<repo_dir, tree, manifests, cloc>>
    /\ pc' = "requests"
    /\ UNCHANGED <<locals, result, notPass>>

\* Lines 210-228: _make_request answers None for a request that failed.
StepRequests ==
    /\ pc = "requests"
    /\ pc' = "code_metrics"
    /\ UNCHANGED <<locals, result, passFrame, notPass>>

\* Line 231.
StepCodeMetrics ==
    /\ pc = "code_metrics"
    /\ Assign("code_metrics",
              Returned(IF Cloned THEN analyze_code_metrics_advanced(tree, cloc)
                       ELSE EmptyDict),
              "dependencies")
    /\ UNCHANGED <<passFrame, notPass>>

\* Line 234.
StepDependencies ==
    /\ pc = "dependencies"
    /\ Assign("dependencies",
              Returned(IF Cloned THEN Lookup(DependenciesTable, manifests)
                       ELSE <<>>),
              "security")
    /\ UNCHANGED <<passFrame, notPass>>

\* Line 237.
StepSecurity ==
    /\ pc = "security"
    /\ Assign("security_vulnerabilities",
              IF Cloned THEN Lookup(SecurityTable, tree) ELSE Returned(<<>>),
              "quality")
    /\ UNCHANGED <<passFrame, notPass>>

\* Line 240.
StepQuality ==
    /\ pc = "quality"
    /\ Assign("code_quality_issues",
              IF Cloned THEN Lookup(QualityTable, tree) ELSE Returned(<<>>),
              "architecture")
    /\ UNCHANGED <<passFrame, notPass>>

\* Line 243.
StepArchitecture ==
    /\ pc = "architecture"
    /\ Assign("architecture_patterns",
              Returned(IF Cloned THEN Lookup(ArchitectureTable, tree) ELSE <<>>),
              "acid")
    /\ UNCHANGED <<passFrame, notPass>>

\* Line 246.
StepAcid ==
    /\ pc = "acid"
    /\ Assign("acid_scores",
              Returned(calculate_acid_scores_detailed(
                           locals.code_metrics,
                           Len(locals.security_vulnerabilities),
                           TypesOf(locals.code_quality_issues))),
              "structure")
    /\ UNCHANGED <<passFrame, notPass>>

\* Lines 249-252: frameworks and file structure.  Both test paths for
\* existence and walk the tree without opening a file.
StepStructure ==
    /\ pc = "structure"
    /\ pc' = "complexity"
    /\ UNCHANGED <<locals, result, passFrame, notPass>>

\* Line 255.
StepComplexity ==
    /\ pc = "complexity"
    /\ Assign("complexity_metrics",
              Returned(IF Cloned THEN Lookup(ComplexityTable, tree)
                       ELSE EmptyDict),
              "performance")
    /\ UNCHANGED <<passFrame, notPass>>

\* Lines 258-261: test coverage is None.
StepPerformance ==
    /\ pc = "performance"
    /\ Assign("performance_metrics",
              Returned(IF Cloned THEN Lookup(PerformanceTable, manifests)
                       ELSE EmptyDict),
              "return")
    /\ UNCHANGED <<passFrame, notPass>>

\* Lines 263-310.
StepReturn ==
    /\ pc = "return"
    /\ result' = DetailedRepositoryMetrics(locals)
    /\ pc' = "finally"
    /\ UNCHANGED <<locals, passFrame, notPass>>

\* Lines 312-315.
StepFinally ==
    /\ pc = "finally"
    /\ temp_dirs' = IF Cloned THEN temp_dirs \ {repo_dir}
                    ELSE temp_dirs
    /\ pc' = "done"
    /\ UNCHANGED <<locals, result, tree, cloc, manifests, repo_dir, notPass>>

---------------------------------------------------------------------------
(* The calls of the single functions.                                      *)

notGrade == <<acidVars, depVars, scanVars, passVars, clientVars>>
notAcid  == <<gradeVars, depVars, scanVars, passVars, clientVars>>
notDep   == <<gradeVars, acidVars, scanVars, passVars, clientVars>>
notScan  == <<gradeVars, acidVars, depVars, passVars, clientVars>>

CallGetGrade ==
    /\ grade = "none"
    /\ grade' = get_grade(count, total)
    /\ UNCHANGED <<count, total, notGrade>>

CallAcidScores ==
    /\ acid_scores = NoAcid
    /\ acid_scores' = calculate_acid_scores_detailed(code_metrics, vulnerabilities,
                                                     quality_issues)
    /\ UNCHANGED <<code_metrics, vulnerabilities, quality_issues, notAcid>>

CallCheckDependency ==
    /\ dep_vulnerabilities = NoResult
    /\ dep_vulnerabilities' = check_dependency_vulnerabilities(name, version)
    /\ UNCHANGED <<name, version, notDep>>

\* The security scanner reads the file and appends its findings.
ScanSecurity ==
    /\ sec_scans < MaxScans
    /\ scan_vulnerabilities' =
           scan_vulnerabilities \o ScanSecurityContent(ScanPath, content)
    /\ sec_scans' = sec_scans + 1
    /\ UNCHANGED <<content, scan_issues, qual_scans, notScan>>

\* The quality scanner reads the file and appends its issues.
ScanQuality ==
    /\ qual_scans < MaxScans
    /\ scan_issues' = scan_issues \o ScanQualityContent(ScanPath, content)
    /\ qual_scans' = qual_scans + 1
    /\ UNCHANGED <<content, scan_vulnerabilities, sec_scans, notScan>>

\* Line 234, the call alone: the list it answers goes to `dependencies`.
CallExtractDependencies ==
    /\ pc = "resolve"
    /\ locals' = [locals EXCEPT
                     !.dependencies = extract_dependencies_detailed(manifests)]
    /\ pc' = "resolved"
    /\ UNCHANGED <<result, passFrame, notPass>>

\* Lines 231, 237, 240, 243 and 255, the calls alone, in the order of the
\* pass.
CallCodeMetrics ==
    /\ pc = "tree_metrics"
    /\ locals' = [locals EXCEPT
                     !.code_metrics = analyze_code_metrics_advanced(tree, cloc)]
    /\ pc' = "tree_security"
    /\ UNCHANGED <<result, passFrame, notPass>>

CallSecurity ==
    /\ pc = "tree_security"
    /\ ~ analyze_security_vulnerabilities(tree).raised
    /\ locals' = [locals EXCEPT
                     !.security_vulnerabilities =
                         analyze_security_vulnerabilities(tree).value]
    /\ pc' = "tree_quality"
    /\ UNCHANGED <<result, passFrame, notPass>>

CallQuality ==
    /\ pc = "tree_quality"
    /\ ~ analyze_code_quality_issues(tree).raised
    /\ locals' = [locals EXCEPT
                     !.code_quality_issues = analyze_code_quality_issues(tree).value]
    /\ pc' = "tree_architecture"
    /\ UNCHANGED <<result, passFrame, notPass>>

CallDetectArchitecture ==
    /\ pc = "tree_architecture"
    /\ locals' = [locals EXCEPT
                     !.architecture_patterns = detect_architecture_patterns(tree)]
    /\ pc' = "tree_complexity"
    /\ UNCHANGED <<result, passFrame, notPass>>

CallComplexityMetrics ==
    /\ pc = "tree_complexity"
    /\ locals' = [locals EXCEPT
                     !.complexity_metrics = calculate_complexity_metrics(tree)]
    /\ pc' = "tree_done"
    /\ UNCHANGED <<result, passFrame, notPass>>

---------------------------------------------------------------------------
(* Specifications.  Each draws the inputs of its part and keeps the other  *)
(* parts idle.                                                             *)

\* run_complete_analysis, lines 186-230 of test_github_analysis.py: what each
\* of its three steps has returned so far.
NoOutputs == [basic |-> "unset", advanced |-> "unset", visualization |-> "unset"]

InitGrade ==
    /\ count \in 0..MaxCount /\ total \in 0..MaxTotal /\ grade = "none"
    /\ code_metrics = EmptyDict /\ vulnerabilities = 0
    /\ quality_issues = [t \in IssueTypes |-> 0] /\ acid_scores = NoAcid
    /\ name = <<>> /\ version = <<>> /\ dep_vulnerabilities = NoResult
    /\ content = <<>> /\ scan_vulnerabilities = <<>> /\ scan_issues = <<>>
    /\ sec_scans = 0 /\ qual_scans = 0
    /\ tree = <<>> /\ cloc = NoCloc
    /\ manifests = NoManifests /\ repo_dir = "None"
    /\ pc = "idle" /\ locals = NoLocals /\ result = NoneYet
    /\ temp_dirs = {}
    /\ rate_limit_remaining = 5000 /\ rate_limit_reset = 0
    /\ now = 0 /\ sent = <<>>
    /\ server = <<>> /\ page = 1 /\ repos = <<>> /\ requested = <<>>
    /\ repositories = <<>> /\ attempted = <<>>
    /\ analyzed_repos = <<>> /\ outputs = NoOutputs

InitAcid ==
    /\ count = 0 /\ total = 0 /\ grade = "none"
    /\ code_metrics \in {EmptyDict} \cup [total_files : 0..MaxAcidFiles]
    /\ vulnerabilities \in 0..MaxVulns
    /\ quality_issues \in
          { [t \in IssueTypes |-> IF t = "bug" THEN b
                                  ELSE IF t = "code_smell" THEN s ELSE o] :
              b \in 0..MaxBugs, s \in 0..MaxSmells, o \in 0..MaxOther }
    /\ acid_scores = NoAcid
    /\ name = <<>> /\ version = <<>> /\ dep_vulnerabilities = NoResult
    /\ content = <<>> /\ scan_vulnerabilities = <<>> /\ scan_issues = <<>>
    /\ sec_scans = 0 /\ qual_scans = 0
    /\ tree = <<>> /\ cloc = NoCloc
    /\ manifests = NoManifests /\ repo_dir = "None"
    /\ pc = "idle" /\ locals = NoLocals /\ result = NoneYet
    /\ temp_dirs = {}
    /\ rate_limit_remaining = 5000 /\ rate_limit_reset = 0
    /\ now = 0 /\ sent = <<>>
    /\ server = <<>> /\ page = 1 /\ repos = <<>> /\ requested = <<>>
    /\ repositories = <<>> /\ attempted = <<>>
    /\ analyzed_repos = <<>> /\ outputs = NoOutputs

InitDep ==
    /\ count = 0 /\ total = 0 /\ grade = "none"
    /\ code_metrics = EmptyDict /\ vulnerabilities = 0
    /\ quality_issues = [t \in IssueTypes |-> 0] /\ acid_scores = NoAcid
    /\ name \in SampleNames /\ version \in SampleVersions
    /\ dep_vulnerabilities = NoResult
    /\ content = <<>> /\ scan_vulnerabilities = <<>> /\ scan_issues = <<>>
    /\ sec_scans = 0 /\ qual_scans = 0
    /\ tree = <<>> /\ cloc = NoCloc
    /\ manifests = NoManifests /\ repo_dir = "None"
    /\ pc = "idle" /\ locals = NoLocals /\ result = NoneYet
    /\ temp_dirs = {}
    /\ rate_limit_remaining = 5000 /\ rate_limit_reset = 0
    /\ now = 0 /\ sent = <<>>
    /\ server = <<>> /\ page = 1 /\ repos = <<>> /\ requested = <<>>
    /\ repositories = <<>> /\ attempted = <<>>
    /\ analyzed_repos = <<>> /\ outputs = NoOutputs

InitScan ==
    /\ count = 0 /\ total = 0 /\ grade = "none"
    /\ code_metrics = EmptyDict /\ vulnerabilities = 0
    /\ quality_issues = [t \in IssueTypes |-> 0] /\ acid_scores = NoAcid
    /\ name = <<>> /\ version = <<>> /\ dep_vulnerabilities = NoResult
    /\ content \in SampleContents
    /\ scan_vulnerabilities = <<>> /\ scan_issues = <<>>
    /\ sec_scans = 0 /\ qual_scans = 0
    /\ tree = <<>> /\ cloc = NoCloc
    /\ manifests = NoManifests /\ repo_dir = "None"
    /\ pc = "idle" /\ locals = NoLocals /\ result = NoneYet
    /\ temp_dirs = {}
    /\ rate_limit_remaining = 5000 /\ rate_limit_reset = 0
    /\ now = 0 /\ sent = <<>>
    /\ server = <<>> /\ page = 1 /\ repos = <<>> /\ requested = <<>>
    /\ repositories = <<>> /\ attempted = <<>>
    /\ analyzed_repos = <<>> /\ outputs = NoOutputs

InitPass ==
    /\ count = 0 /\ total = 0 /\ grade = "none"
    /\ code_metrics = EmptyDict /\ vulnerabilities = 0
    /\ quality_issues = [t \in IssueTypes |-> 0] /\ acid_scores = NoAcid
    /\ name = <<>> /\ version = <<>> /\ dep_vulnerabilities = NoResult
    /\ content = <<>> /\ scan_vulnerabilities = <<>> /\ scan_issues = <<>>
    /\ sec_scans = 0 /\ qual_scans = 0
    /\ tree = <<>> /\ cloc = NoCloc
    /\ manifests = NoManifests /\ repo_dir = "None"
    /\ pc = "clone" /\ locals = NoLocals /\ result = NoneYet
    /\ temp_dirs = {}
    /\ rate_limit_remaining = 5000 /\ rate_limit_reset = 0
    /\ now = 0 /\ sent = <<>>
    /\ server = <<>> /\ page = 1 /\ repos = <<>> /\ requested = <<>>
    /\ repositories = <<>> /\ attempted = <<>>
    /\ analyzed_repos = <<>> /\ outputs = NoOutputs

InitResolve ==
    /\ count = 0 /\ total = 0 /\ grade = "none"
    /\ code_metrics = EmptyDict /\ vulnerabilities = 0
    /\ quality_issues = [t \in IssueTypes |-> 0] /\ acid_scores = NoAcid
    /\ name = <<>> /\ version = <<>> /\ dep_vulnerabilities = NoResult
    /\ content = <<>> /\ scan_vulnerabilities = <<>> /\ scan_issues = <<>>
    /\ sec_scans = 0 /\ qual_scans = 0
    /\ tree = <<>> /\ cloc = NoCloc
    /\ manifests \in ResolveManifests /\ repo_dir = "/tmp/clone"
    /\ pc = "resolve" /\ locals = NoLocals /\ result = NoneYet
    /\ temp_dirs = {"/tmp/clone"}
    /\ rate_limit_remaining = 5000 /\ rate_limit_reset = 0
    /\ now = 0 /\ sent = <<>>
    /\ server = <<>> /\ page = 1 /\ repos = <<>> /\ requested = <<>>
    /\ repositories = <<>> /\ attempted = <<>>
    /\ analyzed_repos = <<>> /\ outputs = NoOutputs

InitTree ==
    /\ count = 0 /\ total = 0 /\ grade = "none"
    /\ code_metrics = EmptyDict /\ vulnerabilities = 0
    /\ quality_issues = [t \in IssueTypes |-> 0] /\ acid_scores = NoAcid
    /\ name = <<>> /\ version = <<>> /\ dep_vulnerabilities = NoResult
    /\ content = <<>> /\ scan_vulnerabilities = <<>> /\ scan_issues = <<>>
    /\ sec_scans = 0 /\ qual_scans = 0
    /\ tree \in AnalysedTrees
    /\ cloc \in ClocFails \cup ClocCounts(tree, NoManifests)
    /\ manifests = NoManifests /\ repo_dir = "/tmp/clone"
    /\ pc = "tree_metrics" /\ locals = NoLocals /\ result = NoneYet
    /\ temp_dirs = {"/tmp/clone"}
    /\ rate_limit_remaining = 5000 /\ rate_limit_reset = 0
    /\ now = 0 /\ sent = <<>>
    /\ server = <<>> /\ page = 1 /\ repos = <<>> /\ requested = <<>>
    /\ repositories = <<>> /\ attempted = <<>>
    /\ analyzed_repos = <<>> /\ outputs = NoOutputs

NextGrade == CallGetGrade
NextAcid  == CallAcidScores
NextDep   == CallCheckDependency
NextScan  == ScanSecurity \/ ScanQuality
NextResolve == CallExtractDependencies
NextTree ==
    \/ CallCodeMetrics \/ CallSecurity \/ CallQuality
    \/ CallDetectArchitecture \/ CallComplexityMetrics
NextPass ==
    \/ StepClone \/ StepRequests \/ StepCodeMetrics \/ StepDependencies \/ StepSecurity
    \/ StepQuality \/ StepArchitecture \/ StepAcid \/ StepStructure
    \/ StepComplexity \/ StepPerformance \/ StepReturn \/ StepFinally

SpecGrade == InitGrade /\ [][NextGrade]_vars
SpecAcid  == InitAcid /\ [][NextAcid]_vars
SpecDep   == InitDep /\ [][NextDep]_vars
SpecScan  == InitScan /\ [][NextScan]_vars
SpecPass  == InitPass /\ [][NextPass]_vars
SpecResolve == InitResolve /\ [][NextResolve]_vars
SpecTree  == InitTree /\ [][NextTree]_vars

\* The interpreter runs the statements of the function one after another.
FairSpecPass == SpecPass /\ WF_vars(NextPass)

---------------------------------------------------------------------------
(* Claims about the pattern scanners (specification SpecScan).             *)

\* The matches of a table in the content: <<v, p, i>> is a match of
\* pattern p of category v that starts at piece i.
Triples(table) ==
    LET places == UNION { { <<v, p>> : p \in 1..Len(table[v].patterns) } :
                            v \in 1..Len(table) }
    IN  UNION { { <<q[1], q[2], i>> :
                    q \in { r \in places :
                              table[r[1]].patterns[r[2]] \in content[i].starts } } :
                i \in { j \in 1..Len(content) : content[j].starts # {} } }

NewlinesBefore(i) == Cardinality({ j \in 1..(i - 1) : content[j] = Newline })

\* The line-number fixture: a line, then password = "x", then a line.
Fixture3Lines == <<Text, Newline, Password, Newline, Text>>

\* C7: every finding of the security scanner and every issue of the quality
\* scanner has line = 1 + the number of newline characters of the content
\* before the start of its match; scanning the 3-line file whose second
\* line holds password = "x" gives a hardcoded_secrets finding with line 2.
C7_LineNumbers ==
    LET secT == Triples(security_patterns)
        qualT == Triples(quality_patterns)
        SecKey(t) == <<security_patterns[t[1]].type, 1 + NewlinesBefore(t[3])>>
        QualKey(t) == <<quality_patterns[t[1]].type, 1 + NewlinesBefore(t[3])>>
    IN  /\ \A k \in 1..Len(scan_vulnerabilities) :
              \E t \in secT :
                 <<scan_vulnerabilities[k].type, scan_vulnerabilities[k].line>>
                    = SecKey(t)
        /\ \A k \in 1..Len(scan_issues) :
              \E t \in qualT :
                 <<scan_issues[k].rule, scan_issues[k].line>> = QualKey(t)
        /\ \A t \in secT :
              Cardinality({ k \in 1..Len(scan_vulnerabilities) :
                    <<scan_vulnerabilities[k].type, scan_vulnerabilities[k].line>>
                       = SecKey(t) })
                = sec_scans * Cardinality({ u \in secT : SecKey(u) = SecKey(t) })
        /\ \A t \in qualT :
              Cardinality({ k \in 1..Len(scan_issues) :
                    <<scan_issues[k].rule, scan_issues[k].line>> = QualKey(t) })
                = qual_scans * Cardinality({ u \in qualT : QualKey(u) = QualKey(t) })
        /\ (content = Fixture3Lines /\ sec_scans >= 1) =>
              \E k \in 1..Len(scan_vulnerabilities) :
                 /\ scan_vulnerabilities[k].type = "hardcoded_secrets"
                 /\ scan_vulnerabilities[k].line = 2

\* The fixture has been scanned once: one finding, hardcoded_secrets, line 2.
C7_Witness ==
    /\ content = Fixture3Lines /\ sec_scans = 1
    /\ Len(scan_vulnerabilities) = 1
    /\ scan_vulnerabilities[1].type = "hardcoded_secrets"
    /\ scan_vulnerabilities[1].line = 2

\* C8: findings are never deduplicated: the findings of a scan of a file
\* are as many as the matches of its content, summed over every pattern of
\* every category; k matches of one pattern give k findings, and one region
\* matched by two patterns gives two findings.
C8_NoDeduplication ==
    LET secT == Triples(security_patterns)
        qualT == Triples(quality_patterns)
    IN  /\ Len(scan_vulnerabilities) = sec_scans * Cardinality(secT)
        /\ Len(scan_issues) = qual_scans * Cardinality(qualT)
        /\ \A v \in 1..Len(security_patterns) :
              Cardinality({ k \in 1..Len(scan_vulnerabilities) :
                              scan_vulnerabilities[k].type = security_patterns[v].type })
                = sec_scans * Cardinality({ t \in secT : t[1] = v })
        /\ \A i \in 1..Len(content) :
              Cardinality({ k \in 1..Len(scan_issues) :
                              scan_issues[k].line = 1 + NewlinesBefore(i) })
                >= qual_scans * Cardinality({ t \in qualT : t[3] = i })

\* One scan each of a content with the same password pattern matching on two
\* lines and one region matched by two quality patterns: two findings with
\* the same type, and two issues on the same line.
C8_Witness ==
    /\ content = <<Password, Newline, Password, Newline, DefDef>>
    /\ sec_scans = 1 /\ qual_scans = 1
    /\ Len(scan_vulnerabilities) = 2
    /\ scan_vulnerabilities[1].type = scan_vulnerabilities[2].type
    /\ Len(scan_issues) = 2
    /\ scan_issues[1].line = 3 /\ scan_issues[2].line = 3
    /\ scan_issues[1].rule # scan_issues[2].rule

\* (category, pattern, offset), compared from left to right.
KeyLess(t, u) ==
    \/ t[1] < u[1]
    \/ t[1] = u[1] /\ t[2] < u[2]
    \/ t[1] = u[1] /\ t[2] = u[2] /\ t[3] < u[3]

\* The matches of a table in ascending order of their keys.
InKeyOrder(table) ==
    LET T == Triples(table)
    IN  [k \in 1..Cardinality(T) |->
            CHOOSE t \in T : Cardinality({ u \in T : KeyLess(u, t) }) = k - 1]

RECURSIVE Repeat(_, _)
Repeat(s, k) == IF k = 0 THEN <<>> ELSE s \o Repeat(s, k - 1)

\* C9: scanning the same content twice gives the same list in the same
\* order: the findings are ordered by category in table order, then by
\* pattern in table order, then by ascending offset of the match, and the
\* list is a function of the content and the pattern table alone.
C9_DeterministicOrder ==
    LET sec == InKeyOrder(security_patterns)
        qual == InKeyOrder(quality_patterns)
        findings == [k \in 1..Len(sec) |->
                        <<security_patterns[sec[k][1]].type,
                          1 + NewlinesBefore(sec[k][3])>>]
        issues == [k \in 1..Len(qual) |->
                      <<quality_patterns[qual[k][1]].type,
                        1 + NewlinesBefore(qual[k][3])>>]
    IN  /\ [k \in 1..Len(scan_vulnerabilities) |->
               <<scan_vulnerabilities[k].type, scan_vulnerabilities[k].line>>]
             = Repeat(findings, sec_scans)
        /\ [k \in 1..Len(scan_issues) |->
               <<scan_issues[k].rule, scan_issues[k].line>>]
             = Repeat(issues, qual_scans)
        /\ \A k \in 1..Len(scan_vulnerabilities) :
              scan_vulnerabilities[k].file = ScanPath
        /\ sec_scans = 2 =>
              SubSeq(scan_vulnerabilities, 1, Len(sec))
                = SubSeq(scan_vulnerabilities, Len(sec) + 1, 2 * Len(sec))

\* Two scans of a content whose password precedes its eval( : each scan
\* lists the xss finding (line 3) before the hardcoded secret (line 1).
C9_Witness ==
    /\ content = <<Password, Newline, Newline, Eval>>
    /\ sec_scans = 2
    /\ Len(scan_vulnerabilities) = 4
    /\ scan_vulnerabilities[1].type = "xss" /\ scan_vulnerabilities[1].line = 3
    /\ scan_vulnerabilities[2].type = "hardcoded_secrets"
    /\ scan_vulnerabilities[2].line = 1
    /\ scan_vulnerabilities[3] = scan_vulnerabilities[1]
    /\ scan_vulnerabilities[4] = scan_vulnerabilities[2]

---------------------------------------------------------------------------
(* Claims about _check_dependency_vulnerabilities (specification SpecDep). *)

\* a precedes b in the order of strings: they agree on k code points, and
\* then a has ended and b has not, or the next code point of a is smaller.
LexLess(a, b) ==
    \E k \in 0..Len(a) :
       /\ k <= Len(b)
       /\ \A i \in 1..k : a[i] = b[i]
       /\ \/ k = Len(a) /\ k < Len(b)
          \/ k < Len(a) /\ k < Len(b) /\ a[k + 1] < b[k + 1]

\* 'jquery' occurs in nm, the case of the letters ignored.
NamesJQuery(nm) ==
    \E at \in 0..(Len(nm) - 6) :
       \A j \in 1..6 :
          LET c == nm[at + j]
          IN  Str_jquery[j] = (IF c \in 65..90 THEN c + 32 ELSE c)

Str_2_1_0  == <<50, 46, 49, 46, 48>>                 \* '2.1.0'
Str_10_0_0 == <<49, 48, 46, 48, 46, 48>>             \* '10.0.0'

\* C10: the check returns exactly one finding (severity high, type XSS,
\* CWE-79) when the name contains 'jquery' case-insensitively and the
\* version string is lexicographically less than "3.0.0", and the empty
\* list otherwise; the order is the order of strings, so version "2.1.0" is
\* flagged and version "10.0.0" is flagged too.
C10_JQueryLexicographic ==
    dep_vulnerabilities # NoResult =>
        /\ (NamesJQuery(name) /\ LexLess(version, Str_3_0_0)) =>
              /\ Len(dep_vulnerabilities) = 1
              /\ dep_vulnerabilities[1].severity = "high"
              /\ dep_vulnerabilities[1].type = "XSS"
              /\ dep_vulnerabilities[1].cwe_id = "CWE-79"
        /\ ~ (NamesJQuery(name) /\ LexLess(version, Str_3_0_0)) =>
              dep_vulnerabilities = <<>>
        /\ (NamesJQuery(name) /\ version \in {Str_2_1_0, Str_10_0_0}) =>
              Len(dep_vulnerabilities) = 1

\* The check has flagged jquery at version "10.0.0".
C10_Witness ==
    /\ name = Str_jquery /\ version = Str_10_0_0
    /\ dep_vulnerabilities # NoResult
    /\ Len(dep_vulnerabilities) = 1
    /\ dep_vulnerabilities[1].type = "XSS"

---------------------------------------------------------------------------
(* Claims about one analysis pass (specifications SpecPass and            *)
(* FairSpecPass).                                                          *)

Grades == {"A", "B", "C", "D", "E"}

\* The pass has ended by its return statement.
Completed == pc = "done" /\ result.status = "returned"

\* The four scores, the three counts and the three grades of the result.
FullScoreCard ==
    /\ result.code_quality_score \in 0..InTenths(100)
    /\ result.security_score \in 0..InTenths(100)
    /\ result.maintainability_score \in 0..InTenths(100)
    /\ result.reliability_score \in 0..InTenths(100)
    /\ result.bugs \in Nat /\ result.vulnerabilities \in Nat
    /\ result.code_smells \in Nat
    /\ result.bugs_grade \in Grades
    /\ result.vulnerabilities_grade \in Grades
    /\ result.code_smells_grade \in Grades

\* C4: on an empty tree the analysis yields total_files = 0, function, class
\* and import counts 0, the three grades A and the four scores 100.
C4_EmptyTree ==
    (pc = "done" /\ Cloned /\ tree = <<>> /\ manifests = NoManifests) =>
        /\ result.status = "returned"
        /\ result.total_files = 0
        /\ locals.code_metrics.function_count = 0
        /\ locals.code_metrics.class_count = 0
        /\ locals.code_metrics.import_count = 0
        /\ result.bugs_grade = "A"
        /\ result.vulnerabilities_grade = "A"
        /\ result.code_smells_grade = "A"
        /\ result.code_quality_score = InTenths(100)
        /\ result.security_score = InTenths(100)
        /\ result.maintainability_score = InTenths(100)
        /\ result.reliability_score = InTenths(100)

\* A pass over a clone without a file has ended, the line counter having
\* run and counted no file.
C4_Witness ==
    /\ Completed /\ Cloned /\ tree = <<>> /\ manifests = NoManifests
    /\ cloc.outcome = "ok"
    /\ result.total_files = 0 /\ result.bugs_grade = "A"
    /\ result.code_quality_score = InTenths(100)

\* A sub-analysis that failed or found nothing hands zeros to the scores.
ZeroValuedInputs ==
    /\ cloc.outcome # "ok" => result.total_files = 0 /\ result.total_lines = 0
    /\ result.vulnerabilities = Len(result.security_vulnerabilities)
    /\ result.code_smells = Len(result.code_quality_issues)
    /\ result.bugs = 0
    /\ (\A i \in 1..Len(tree) : ~ tree[i].readable) =>
          /\ result.security_vulnerabilities = <<>>
          /\ result.code_quality_issues = <<>>
          /\ result.security_score = InTenths(100)
    /\ (~ manifests.package_json.parse_ok /\ ~ manifests.requirements_txt.exists) =>
          result.dependencies = <<>>

\* C5: for every tree and every combination of failures of the
\* sub-analyses (files that cannot be read or decoded, source files that do
\* not parse, manifests that do not parse, a failing line counter) the pass
\* terminates and yields a full score card, the failed or empty
\* sub-analyses contributing zero-valued inputs; no failure aborts the pass.
C5_PassCompletes == <>[](Completed /\ FullScoreCard /\ ZeroValuedInputs)

\* A pass has ended over a tree of a file that does not parse and a file
\* that cannot be decoded, with a broken package.json, a requirements.txt
\* that fails while it is read, and no line counter.
C5_Witness ==
    /\ Completed /\ FullScoreCard
    /\ tree = <<BadPy, BlobPy>>
    /\ manifests.package_json = PkgBroken
    /\ manifests.requirements_txt = ReqBroken
    /\ cloc.outcome = "missing"
    /\ result.total_files = 0

\* The tree without the files that cannot be read or decoded.
Readable(files) == LET Keep(f) == f.readable IN SelectSeq(files, Keep)

\* The tree without the Python files that cannot be read or parsed and the
\* script files that cannot be read.
Countable(files) ==
    LET Keep(f) == /\ f.readable
                   /\ f.ext \in PyExts => f.syntax_ok
    IN  SelectSeq(files, Keep)

\* C6: failures are isolated per file: a file that cannot be read or
\* decoded contributes no finding, a Python file that does not parse
\* contributes zero to the function, class and import counts, and every
\* other file contributes what it contributes in the tree without the
\* failing file.
C6_PerFileIsolation ==
    (Completed /\ Cloned) =>
        /\ \A i \in 1..Len(tree) :
              ~ tree[i].readable =>
                 /\ \A k \in 1..Len(result.security_vulnerabilities) :
                       result.security_vulnerabilities[k].file # FilePath(tree[i])
                 /\ \A k \in 1..Len(result.code_quality_issues) :
                       result.code_quality_issues[k].file # FilePath(tree[i])
        /\ result.security_vulnerabilities
              = analyze_security_vulnerabilities(Readable(tree)).value
        /\ result.code_quality_issues
              = analyze_code_quality_issues(Readable(tree)).value
        /\ LET without == analyze_code_metrics_advanced(Countable(tree), cloc)
           IN  /\ locals.code_metrics.function_count = without.function_count
               /\ locals.code_metrics.class_count = without.class_count
               /\ locals.code_metrics.import_count = without.import_count

\* A pass has ended over bad.py, which does not parse, followed by app.py:
\* the counts are those of app.py alone, and the findings those of both.
C6_Witness ==
    /\ Completed /\ tree = <<BadPy, AppPy>> /\ cloc.outcome = "ok"
    /\ locals.code_metrics.function_count = 2
    /\ locals.code_metrics.class_count = 1
    /\ locals.code_metrics.import_count = 1
    /\ Len(result.security_vulnerabilities) = 2
    /\ result.security_vulnerabilities[1].file = FilePath(BadPy)
    /\ result.security_vulnerabilities[2].file = FilePath(AppPy)

---------------------------------------------------------------------------
(* Claims about _extract_dependencies_detailed (specification SpecResolve).*)

Resolved == pc = "resolved"

\* The records of package.json are the first of the list: the function reads
\* it first and appends.
PackageCount == Len(PackageJsonRecords(manifests.package_json))
ManifestOf(i) == IF i <= PackageCount THEN "package.json" ELSE "requirements.txt"

\* C11: every finding attached to a dependency record has line 0 and, as
\* its file, the manifest the dependency was read from: package.json for an
\* entry of package.json, requirements.txt for a line of requirements.txt.
C11_FindingNamesItsManifest ==
    Resolved =>
        \A i \in 1..Len(locals.dependencies) :
            \A j \in 1..Len(locals.dependencies[i].vulnerabilities) :
                /\ locals.dependencies[i].vulnerabilities[j].line = 0
                /\ locals.dependencies[i].vulnerabilities[j].file = ManifestOf(i)

---------------------------------------------------------------------------
(* Claims about the findings of a pass (specification SpecPass).           *)

\* The findings attached to the dependency records, in one list.
DependencyFindings(deps) ==
    Flatten([i \in 1..Len(deps) |-> deps[i].vulnerabilities])

VulnerabilityScale == {"low", "medium", "high", "critical"}

\* C12, as the data model states it: every finding made during a pass (a
\* security finding, a quality issue, a finding attached to a dependency)
\* has a line of 1 or more and a severity among low, medium, high, critical.
C12_FindingsWellFormed ==
    LET WellFormed(f) == f.line >= 1 /\ f.severity \in VulnerabilityScale
    IN  /\ \A i \in 1..Len(locals.security_vulnerabilities) :
              WellFormed(locals.security_vulnerabilities[i])
        /\ \A i \in 1..Len(locals.code_quality_issues) :
              WellFormed(locals.code_quality_issues[i])
        /\ \A i \in 1..Len(DependencyFindings(locals.dependencies)) :
              WellFormed(DependencyFindings(locals.dependencies)[i])

\* C12, as the code makes them: a security finding has a line of 1 or more
\* and severity medium; a quality issue has a line of 1 or more and
\* severity minor; a finding attached to a dependency has line 0 and
\* severity high.  The result carries the same lists.
C12_FindingsAsCreated ==
    /\ \A i \in 1..Len(locals.security_vulnerabilities) :
          /\ locals.security_vulnerabilities[i].line >= 1
          /\ locals.security_vulnerabilities[i].severity = "medium"
    /\ \A i \in 1..Len(locals.code_quality_issues) :
          /\ locals.code_quality_issues[i].line >= 1
          /\ locals.code_quality_issues[i].severity = "minor"
    /\ \A i \in 1..Len(DependencyFindings(locals.dependencies)) :
          /\ DependencyFindings(locals.dependencies)[i].line = 0
          /\ DependencyFindings(locals.dependencies)[i].severity = "high"
    /\ Completed =>
          /\ result.security_vulnerabilities = locals.security_vulnerabilities
          /\ result.code_quality_issues = locals.code_quality_issues
          /\ result.dependencies = locals.dependencies

\* A pass has ended with findings of the three kinds.
C12_Witness ==
    /\ Completed
    /\ result.security_vulnerabilities # <<>>
    /\ result.code_quality_issues # <<>>
    /\ DependencyFindings(result.dependencies) # <<>>

\* Every version of the two maps is a JSON string.
VersionStrings(pkg) ==
    /\ \A i \in 1..Len(pkg.dependencies) : IsString(pkg.dependencies[i].version)
    /\ \A i \in 1..Len(pkg.devDependencies) : IsString(pkg.devDependencies[i].version)

\* C13: for a package.json that parses, with version strings, the list
\* starts with one record per entry of `dependencies`, typed direct, then
\* one per entry of `devDependencies`, typed dev, each with the name and
\* the version string of its entry, in the order of the file; the records
\* of requirements.txt, and nothing else, come after them.
C13_PackageJsonRecords ==
    (/\ Resolved
     /\ manifests.package_json.exists /\ manifests.package_json.parse_ok
     /\ VersionStrings(manifests.package_json)) =>
        LET direct == manifests.package_json.dependencies
            dev == manifests.package_json.devDependencies
            deps == locals.dependencies
        IN  /\ Len(deps) = Len(direct) + Len(dev)
                             + Len(RequirementsRecords(manifests.requirements_txt))
            /\ \A i \in 1..Len(direct) :
                  /\ deps[i].name = direct[i].name
                  /\ deps[i].version = direct[i].version
                  /\ deps[i].type = "direct"
            /\ \A i \in 1..Len(dev) :
                  /\ deps[Len(direct) + i].name = dev[i].name
                  /\ deps[Len(direct) + i].version = dev[i].version
                  /\ deps[Len(direct) + i].type = "dev"
            /\ SubSeq(deps, Len(direct) + Len(dev) + 1, Len(deps))
                  = RequirementsRecords(manifests.requirements_txt)

\* Two entries of dependencies, one of devDependencies and a line of
\* requirements.txt have been resolved.
C13_Witness ==
    /\ Resolved
    /\ manifests.package_json.parse_ok
    /\ VersionStrings(manifests.package_json)
    /\ Len(manifests.package_json.dependencies) = 2
    /\ Len(manifests.package_json.devDependencies) = 1
    /\ Len(locals.dependencies) = 4
    /\ locals.dependencies[3].type = "dev"
    /\ locals.dependencies[4].type = "direct"

\* t is the line without the white space at its two ends.
IsTrimOf(t, line) ==
    \E a, b \in 0..Len(line) :
        /\ a + b <= Len(line)
        /\ t = SubSeq(line, a + 1, Len(line) - b)
        /\ \A i \in 1..a : IsSpace(line[i])
        /\ \A i \in (Len(line) - b + 1)..Len(line) : IsSpace(line[i])
        /\ t # <<>> => ~ IsSpace(t[1]) /\ ~ IsSpace(t[Len(t)])

Trimmed(line) ==
    CHOOSE t \in { SubSeq(line, a, b) : a \in 1..(Len(line) + 1), b \in 0..Len(line) } :
        IsTrimOf(t, line)

\* The lines tried, each with what trimming leaves of it.
TrimmedLines == { <<line, Trimmed(line)>> : line \in SampleLines }

\* The lines that, trimmed, are not blank and do not start with '#'.
EntryLines(lines) ==
    LET Keep(line) == LET t == Lookup(TrimmedLines, line)
                      IN  t # <<>> /\ t[1] # 35
    IN  SelectSeq(lines, Keep)

HasEqEq(t) == \E i \in 1..(Len(t) - 1) : t[i] = 61 /\ t[i + 1] = 61

C15_PipfileRecords ==
    (Resolved /\ manifests.pipfile.exists /\ manifests.pipfile.parse_ok) =>
        LET packages == manifests.pipfile.packages
            dev == manifests.pipfile.dev_packages
            deps == locals.dependencies
            others == PackageCount + Len(RequirementsRecords(manifests.requirements_txt))
        IN  /\ Len(deps) = others + Len(packages) + Len(dev)
            /\ \A i \in 1..Len(packages) :
                  /\ deps[others + i].name = packages[i]
                  /\ deps[others + i].type = "direct"
                  /\ deps[others + i].vulnerabilities =
                        check_dependency_vulnerabilities(packages[i],
                                                         deps[others + i].version)
            /\ \A i \in 1..Len(dev) :
                  /\ deps[others + Len(packages) + i].name = dev[i]
                  /\ deps[others + Len(packages) + i].type = "dev"
                  /\ deps[others + Len(packages) + i].vulnerabilities =
                        check_dependency_vulnerabilities(
                            dev[i], deps[others + Len(packages) + i].version)

\* package.json is not there, or the try around it ends in its except:
\* json.load raises, or the vulnerability check of an entry does.
PackageJsonFails(pkg) ==
    \/ ~ pkg.exists
    \/ ~ pkg.parse_ok
    \/ \E i \in 1..Len(pkg.dependencies) :
          CheckRaises(pkg.dependencies[i].name, pkg.dependencies[i].version)
    \/ \E i \in 1..Len(pkg.devDependencies) :
          CheckRaises(pkg.devDependencies[i].name, pkg.devDependencies[i].version)

\* requirements.txt is not there, or reading one of its lines raises.
RequirementsFail(req) == ~ req.exists \/ req.fail_at > 0

\* C16: the resolver returns, and a manifest that is missing or fails
\* while it is read leaves no record in the list: the list is the one of
\* the clone without that manifest.
C16_FailedManifestLeavesNothing ==
    Resolved =>
        /\ PackageJsonFails(manifests.package_json) =>
              locals.dependencies =
                  extract_dependencies_detailed(
                      [manifests EXCEPT !.package_json = PkgAbsent])
        /\ RequirementsFail(manifests.requirements_txt) =>
              locals.dependencies =
                  extract_dependencies_detailed(
                      [manifests EXCEPT !.requirements_txt = ReqAbsent])

---------------------------------------------------------------------------
(* Claims about the analyses of the tree (specification SpecTree).         *)

ArchitectureDetected == pc \in {"tree_complexity", "tree_done"}

\* An entry of that name lies directly under the root of the clone: the
\* first directory of a file, or a file of the root.
AtRoot(nm) ==
    \E i \in 1..Len(tree) :
        \/ /\ tree[i].dirs # <<>>
           /\ ~ tree[i].dirs[1].dot /\ tree[i].dirs[1].stem = nm
        \/ /\ tree[i].dirs = <<>> /\ tree[i].ext = ""
           /\ ~ tree[i].file.dot /\ tree[i].file.stem = nm

MvcCues == {"models", "views", "controllers"}
MicroservicesCues == {"services", "microservices"}

\* C17: MVC is emitted, once and with confidence 0.8, exactly when one of
\* models, views, controllers lies directly under the root; Microservices,
\* once and with confidence 0.7, exactly when services or microservices
\* does; both may be emitted together, and nothing else is: a pattern
\* without a cue is absent, not present with confidence 0.
C17_PatternsByCue ==
    ArchitectureDetected =>
        LET ps == locals.architecture_patterns
            Emitted(p) == Cardinality({ i \in 1..Len(ps) : ps[i].pattern = p })
        IN  /\ Emitted("MVC") = IF \E c \in MvcCues : AtRoot(c) THEN 1 ELSE 0
            /\ Emitted("Microservices") =
                  IF \E c \in MicroservicesCues : AtRoot(c) THEN 1 ELSE 0
            /\ Len(ps) = Emitted("MVC") + Emitted("Microservices")
            /\ \A i \in 1..Len(ps) :
                  ps[i].confidence = IF ps[i].pattern = "MVC" THEN 8 ELSE 7

\* Both patterns have been emitted for a tree with models/ and services/
\* and no other cue.
C17_Witness ==
    /\ ArchitectureDetected
    /\ AtRoot("models") /\ AtRoot("services")
    /\ ~ AtRoot("views") /\ ~ AtRoot("controllers") /\ ~ AtRoot("microservices")
    /\ Len(locals.architecture_patterns) = 2
    /\ locals.architecture_patterns[1].pattern = "MVC"
    /\ locals.architecture_patterns[2].pattern = "Microservices"

\* The directory names a pattern lists, without the '/' the code appends.
CueOf(listed) ==
    CHOOSE c \in MvcCues \cup MicroservicesCues :
        listed = (CASE c = "models" -> "models/"
                    [] c = "views" -> "views/"
                    [] c = "controllers" -> "controllers/"
                    [] c = "services" -> "services/"
                    [] c = "microservices" -> "microservices/")

\* C18: the files of an emitted pattern are the directories of its cue set
\* that were found under the root: one that is not in the tree is not
\* listed, one that is in the tree is.
C18_FilesAreFoundDirectories ==
    ArchitectureDetected =>
        \A i \in 1..Len(locals.architecture_patterns) :
            LET p == locals.architecture_patterns[i]
                cues == IF p.pattern = "MVC" THEN MvcCues ELSE MicroservicesCues
            IN  { CueOf(p.files[k]) : k \in 1..Len(p.files) }
                    = { c \in cues : AtRoot(c) }

ComplexityEstimated == pc = "tree_done"

\* C19: with the totals of the tree, cyclomatic_complexity is
\* (conditionals + loops + functions) / functions when there is a function
\* and 0 when there is none, and maintainability_index is
\* max(0, 100 - 10 * cyclomatic_complexity); 5 functions and 10
\* conditionals and loops give 3 and 70.  The two values are fractions.
C19_ComplexityFormula ==
    ComplexityEstimated =>
        LET totals == ComplexityTotals(tree)
            cyc == locals.complexity_metrics.cyclomatic_complexity
            mi == locals.complexity_metrics.maintainability_index
        IN  /\ cyc[2] > 0 /\ mi[2] > 0
            /\ IF totals.functions > 0
               THEN cyc[1] * totals.functions =
                       (totals.conditionals + totals.loops + totals.functions) * cyc[2]
               ELSE cyc[1] = 0
            /\ IF 10 * cyc[1] <= 100 * cyc[2]
               THEN mi[1] * cyc[2] = (100 * cyc[2] - 10 * cyc[1]) * mi[2]
               ELSE mi[1] = 0
            /\ (totals.functions = 5 /\ totals.conditionals + totals.loops = 10) =>
                  cyc[1] = 3 * cyc[2] /\ mi[1] = 70 * mi[2]

\* The fixture has been estimated: 5 functions, 10 conditionals and loops.
C19_Witness ==
    /\ ComplexityEstimated
    /\ ComplexityTotals(tree).functions = 5
    /\ ComplexityTotals(tree).conditionals + ComplexityTotals(tree).loops = 10
    /\ locals.complexity_metrics.cyclomatic_complexity[1] =
          3 * locals.complexity_metrics.cyclomatic_complexity[2]
    /\ locals.complexity_metrics.maintainability_index[1] =
          70 * locals.complexity_metrics.maintainability_index[2]

\* C20: the function total of the complexity formula is the function_count
\* of the code metrics of the same tree.
C20_SameFunctionCount ==
    ComplexityEstimated =>
        ComplexityTotals(tree).functions = locals.code_metrics.function_count

---------------------------------------------------------------------------
(* Claims about the structural counts (specification SpecTree).            *)

MetricsCounted ==
    pc \in {"tree_security", "tree_quality", "tree_architecture", "tree_complexity",
            "tree_done"}

\* The line counter did not raise: the two counting passes were run.
PassesRun == cloc.outcome \in {"ok", "failed"}

\* What one file adds to a count: the nodes of its syntax tree for a Python
\* file that is read and parses, the pattern matches for a script file that
\* is read, nothing for any other file or below a hidden directory.
Contribution(f, field) ==
    IF Pruned(f) THEN 0
    ELSE IF f.ext \in PyExts
         THEN (IF f.readable /\ f.syntax_ok THEN f.defs[field] ELSE 0)
    ELSE IF f.ext \in JsExts
         THEN (IF f.readable THEN f.defs[field] ELSE 0)
    ELSE 0

\* The tree in every order of its files.
Reorderings(files) ==
    { [i \in 1..Len(files) |-> files[p[i]]] : p \in Permutations(1..Len(files)) }

---------------------------------------------------------------------------
(* Claims about the walks of the tree (specification SpecTree).            *)

TreeAnalysed == pc = "tree_done"

\* One of the directories above the file has a name that starts with '.'.
BelowHidden(f) == \E k \in 1..Len(f.dirs) : f.dirs[k].dot

Unhidden(files) ==
    LET Keep(f) == ~ BelowHidden(f) IN SelectSeq(files, Keep)

\* The findings of a list that name the file.
FindingsOn(findings, f) ==
    Cardinality({ k \in 1..Len(findings) : findings[k].file = FilePath(f) })

\* C22: a directory whose name starts with '.' is pruned with everything
\* below it: no file under it yields a finding or a count, at any depth;
\* every source file outside such directories is processed exactly once by
\* each sub-analysis: its findings are those of one scan of it, and its
\* counts enter the sums once.
C22_HiddenDirectoriesPruned ==
    TreeAnalysed =>
        /\ \A i \in 1..Len(tree) :
              BelowHidden(tree[i]) =>
                 /\ FindingsOn(locals.security_vulnerabilities, tree[i]) = 0
                 /\ FindingsOn(locals.code_quality_issues, tree[i]) = 0
        /\ locals.code_metrics = analyze_code_metrics_advanced(Unhidden(tree), cloc)
        /\ locals.complexity_metrics = calculate_complexity_metrics(Unhidden(tree))
        /\ \A i \in 1..Len(tree) :
              (~ BelowHidden(tree[i]) /\ tree[i].ext \in CodeExts /\ tree[i].readable) =>
                 /\ FindingsOn(locals.security_vulnerabilities, tree[i]) =
                       Len(ScanSecurityContent(FilePath(tree[i]), tree[i].text))
                 /\ FindingsOn(locals.code_quality_issues, tree[i]) =
                       Len(ScanQualityContent(FilePath(tree[i]), tree[i].text))
        /\ PassesRun =>
              locals.code_metrics.function_count =
                  SumSeq([i \in 1..Len(tree) |->
                             IF BelowHidden(tree[i]) THEN 0
                             ELSE Contribution(tree[i], "functions")])

\* src/.cache/x/gen.py and app.py have been analysed: the finding and the
\* two functions of app.py, nothing of gen.py.
C22_Witness ==
    /\ TreeAnalysed /\ PassesRun
    /\ tree = <<CachePy, AppPy>>
    /\ Len(locals.security_vulnerabilities) = 1
    /\ locals.security_vulnerabilities[1].file = FilePath(AppPy)
    /\ locals.code_metrics.function_count = 2

\* The name of the file itself starts with '.'.
HiddenFile(f) == f.file.dot

\* C23: a file whose own name starts with '.', in a directory that is not
\* hidden, is not scanned: it yields no finding and no structural count.
C23_HiddenFilesSkipped ==
    TreeAnalysed =>
        /\ \A i \in 1..Len(tree) :
              HiddenFile(tree[i]) =>
                 /\ FindingsOn(locals.security_vulnerabilities, tree[i]) = 0
                 /\ FindingsOn(locals.code_quality_issues, tree[i]) = 0
        /\ LET Shown(f) == ~ HiddenFile(f)
           IN  /\ locals.code_metrics =
                     analyze_code_metrics_advanced(SelectSeq(tree, Shown), cloc)
               /\ locals.complexity_metrics =
                     calculate_complexity_metrics(SelectSeq(tree, Shown))

---------------------------------------------------------------------------
(* Claims about the score card of a pass (specification SpecPass).         *)

\* The files of the clone: those of the tree and the manifests.
FilesOfClone == Len(tree) + ManifestFiles(manifests)

\* C24: the total_files the grades are banded with is the number of files
\* of the analysed tree, so it is positive for a tree that holds a file,
\* and the code-smell grade is the band of the smells over that number
\* (2 smells over 12 files: D).
C24_TotalFilesIsFileCount ==
    (Completed /\ Cloned) =>
        /\ result.total_files = FilesOfClone
        /\ FilesOfClone > 0 => result.total_files > 0
        /\ result.code_smells_grade = get_grade(result.code_smells, FilesOfClone)

\* C25: in the score card of every pass, vulnerabilities is the length of
\* the list of security findings, code_smells the number of quality issues
\* typed code_smell, bugs the number typed bug, which is 0 for every tree:
\* bugs_grade is A and the reliability score 100.
C25_CountsFromFindings ==
    Completed =>
        LET issues == result.code_quality_issues
            Typed(t) == Cardinality({ i \in 1..Len(issues) : issues[i].type = t })
        IN  /\ result.vulnerabilities = Len(result.security_vulnerabilities)
            /\ result.code_smells = Typed("code_smell")
            /\ result.bugs = Typed("bug")
            /\ result.bugs = 0
            /\ result.bugs_grade = "A"
            /\ result.reliability_score = InTenths(100)
            /\ Cloned =>
                  /\ Returned(result.security_vulnerabilities) =
                        Lookup(SecurityTable, tree)
                  /\ Returned(result.code_quality_issues) =
                        Lookup(QualityTable, tree)

\* A pass has ended with a security finding and quality issues, and a
\* file count from the line counter.
C25_Witness ==
    /\ Completed /\ Cloned
    /\ result.vulnerabilities >= 1
    /\ result.code_smells >= 2
    /\ result.total_files >= 1
    /\ result.bugs = 0 /\ result.bugs_grade = "A"

----------------------------------------------------------------------------
(* C27: the temporary directory of the clone.                              *)

\* The analysis has returned or raised: the finally clause has run.
AnalysisLeft == pc = "done"

\* C27: every temporary directory that _clone_repository created has been
\* removed by the time analyze_repository_detailed returns or raises,
\* whether the analysis succeeded, raised, or git failed to clone.
C27_TempDirsRemoved == AnalysisLeft => temp_dirs = {}

----------------------------------------------------------------------------
(* The client of the GitHub API: rate limit, lines 168-199 (and 153-184 of  *)
(* github_scraper.py, the same code).                                       *)

TicksPerSecond == 2     \* the clock is counted in ticks, time.time() has a fraction
MaxClock       == 12    \* ticks the clock runs
MaxReset       == 4     \* X-RateLimit-Reset answers 0..MaxReset, in seconds

\* int(time.time()): the fraction is cut off.
IntTime(t) == t \div TicksPerSecond

\* A variant that sleeps one second short of the reset.
CheckRateLimitShort(remaining, reset, t) ==
    IF remaining < 10
    THEN LET reset_time == reset - IntTime(t)
         IN  IF reset_time > 0 THEN reset_time - 1 ELSE 0
    ELSE 0

\* Lines 168-174: the seconds _check_rate_limit sleeps, 0 when it returns at
\* once.
check_rate_limit(remaining, reset, t) ==
    IF remaining < 10
    THEN LET reset_time == reset - IntTime(t)
         IN  IF reset_time > 0 THEN reset_time + 1 ELSE 0
    ELSE 0

\* X-RateLimit-Remaining as the server may answer it; a missing header is 0
\* (line 183).
SampleRemaining == {0, 9, 10, 4999}

\* X-RateLimit-Reset: seconds, 0 when missing (line 184).  The header may
\* also be text that is no number: int() then raises after the remaining
\* count was stored, and the reset time stays.
SampleResets == 0..MaxReset

passRest == <<tree, cloc, manifests, repo_dir, temp_dirs, locals, result>>
notRate  == <<gradeVars, acidVars, depVars, scanVars, passRest, pageVars, userVars>>

\* Lines 176-199, one call of _make_request: the check sleeps (time.sleep
\* returns no earlier than asked), session.get sends the request, and either
\* raises, leaving both fields as they were, or answers, and the fields are
\* set from the headers.  sent keeps the request sent last: the time it left
\* and the two fields as they were then.
MakeRequest ==
    /\ pc = "client"
    /\ \E late \in 0..1 :
          LET secs   == check_rate_limit(rate_limit_remaining, rate_limit_reset, now)
              leaves == IF secs > 0 THEN now + secs * TicksPerSecond + late
                        ELSE now
          IN  /\ leaves <= MaxClock
              /\ sent' = <<[at |-> leaves, waited |-> secs > 0,
                            remaining |-> rate_limit_remaining,
                            reset |-> rate_limit_reset]>>
              /\ now' = leaves
    /\ \/ UNCHANGED <<rate_limit_remaining, rate_limit_reset>>
       \/ \E rem \in SampleRemaining, res \in SampleResets, numeric \in BOOLEAN :
             /\ rate_limit_remaining' = rem
             /\ rate_limit_reset' = IF numeric THEN res ELSE rate_limit_reset
    /\ UNCHANGED <<pc, notRate>>

\* Time passes between two calls.
Tick ==
    /\ pc = "client"
    /\ now < MaxClock
    /\ now' = now + 1
    /\ UNCHANGED <<rate_limit_remaining, rate_limit_reset, sent, pc, notRate>>

\* Lines 162-166: a new client has 5000 requests left and no reset time.
InitRate ==
    /\ count = 0
    /\ total = 0
    /\ grade = "none"
    /\ code_metrics = EmptyDict
    /\ vulnerabilities = 0
    /\ quality_issues = [t \in IssueTypes |-> 0]
    /\ acid_scores = NoAcid
    /\ name = <<>>
    /\ version = <<>>
    /\ dep_vulnerabilities = NoResult
    /\ content = <<>>
    /\ scan_vulnerabilities = <<>>
    /\ scan_issues = <<>>
    /\ sec_scans = 0
    /\ qual_scans = 0
    /\ tree = <<>>
    /\ cloc = NoCloc
    /\ manifests = NoManifests
    /\ repo_dir = "None"
    /\ pc = "client"
    /\ locals = NoLocals
    /\ result = NoneYet
    /\ temp_dirs = {}
    /\ rate_limit_remaining = 5000
    /\ rate_limit_reset = 0
    /\ now = 0
    /\ sent = <<>>
    /\ server = <<>>
    /\ page = 1
    /\ repos = <<>>
    /\ requested = <<>>
    /\ repositories = <<>>
    /\ attempted = <<>>
    /\ analyzed_repos = <<>>
    /\ outputs = NoOutputs

NextRate == MakeRequest \/ Tick
SpecRate == InitRate /\ [][NextRate]_vars

\* A request has been sent.
RequestSent == sent # <<>>

\* C28: no request is sent while rate_limit_remaining < 10 and the clock is
\* before rate_limit_reset; the client has first waited until after the
\* reset time.
C28_NoRequestBeforeReset ==
    RequestSent =>
        LET s == sent[1]
        IN  /\ ~ (s.remaining < 10 /\ s.at < s.reset * TicksPerSecond)
            /\ s.waited => s.at > s.reset * TicksPerSecond

\* A request that left after the client had waited for the reset.
C28_Witness ==
    /\ RequestSent
    /\ sent[1].waited /\ sent[1].remaining < 10 /\ sent[1].reset > 0

----------------------------------------------------------------------------
(* The repositories of a user, page by page: _get_all_repositories, lines   *)
(* 221-246 of github_scraper.py.                                            *)

per_page == 100     \* line 225
MaxPages == 3       \* pages the server of the model has

\* What _make_request answers for one page: None for a failed request, or
\* the list of the page.  An item is named by its page and its place.
FailedPage   == [ok |-> FALSE, items |-> <<>>]
PageOf(k, n) == [ok |-> TRUE, items |-> [i \in 1..n |-> <<k, i>>]]
PageLengths  == {0, 1, per_page - 1, per_page}
Answers(k)   == {FailedPage} \cup { PageOf(k, n) : n \in PageLengths }
Servers      == { s \in [1..MaxPages -> UNION { Answers(k) : k \in 1..MaxPages }] :
                    \A k \in 1..MaxPages : s[k] \in Answers(k) }

notPages == <<gradeVars, acidVars, depVars, scanVars, passRest, userVars>>

\* The request of the loop as _make_request leaves the client (176-199 of
\* the analyzer, 161-184 here): the server of this specification is far
\* from its limit, so the check never sleeps; the fields are set from the
\* headers of an answer and stay when session.get raised.
PageRequest(answered) ==
    /\ sent' = <<[at |-> now, waited |-> FALSE,
                  remaining |-> rate_limit_remaining,
                  reset |-> rate_limit_reset]>>
    /\ rate_limit_remaining' = IF answered THEN 4999 ELSE rate_limit_remaining
    /\ rate_limit_reset' = IF answered THEN 0 ELSE rate_limit_reset
    /\ UNCHANGED now

\* A variant that leaves the loop on a short page before keeping it.
FetchPageDropsShort ==
    /\ pc = "paging"
    /\ page <= MaxPages
    /\ requested' = Append(requested, page)
    /\ LET response == server[page]
       IN  /\ \E answered \in (IF response.ok THEN {TRUE} ELSE BOOLEAN) :
                 PageRequest(answered)
           /\ IF ~ response.ok \/ Len(response.items) < per_page
              THEN /\ pc' = "paged"
                   /\ UNCHANGED <<repos, page>>
              ELSE /\ repos' = repos \o response.items
                   /\ page' = page + 1
                   /\ pc' = "paging"
    /\ UNCHANGED <<server, notPages>>

\* Lines 227-244, one turn of the loop: the request for the page, the break
\* on no answer or an empty list, extend, the next page number, and the
\* break after a page shorter than per_page.
FetchPage ==
    /\ pc = "paging"
    /\ page <= MaxPages
    /\ requested' = Append(requested, page)
    /\ LET response == server[page]
       IN  /\ \E answered \in (IF response.ok THEN {TRUE} ELSE BOOLEAN) :
                 PageRequest(answered)
           /\ IF ~ response.ok \/ Len(response.items) = 0
              THEN /\ pc' = "paged"
                   /\ UNCHANGED <<repos, page>>
              ELSE /\ repos' = repos \o response.items
                   /\ page' = page + 1
                   /\ pc' = IF Len(response.items) < per_page THEN "paged"
                            ELSE "paging"
    /\ UNCHANGED <<server, notPages>>

\* Lines 223-225: repos = [], page = 1, before the first request.
InitPages ==
    /\ count = 0
    /\ total = 0
    /\ grade = "none"
    /\ code_metrics = EmptyDict
    /\ vulnerabilities = 0
    /\ quality_issues = [t \in IssueTypes |-> 0]
    /\ acid_scores = NoAcid
    /\ name = <<>>
    /\ version = <<>>
    /\ dep_vulnerabilities = NoResult
    /\ content = <<>>
    /\ scan_vulnerabilities = <<>>
    /\ scan_issues = <<>>
    /\ sec_scans = 0
    /\ qual_scans = 0
    /\ tree = <<>>
    /\ cloc = NoCloc
    /\ manifests = NoManifests
    /\ repo_dir = "None"
    /\ pc = "paging"
    /\ locals = NoLocals
    /\ result = NoneYet
    /\ temp_dirs = {}
    /\ rate_limit_remaining = 5000
    /\ rate_limit_reset = 0
    /\ now = 0
    /\ sent = <<>>
    /\ server \in Servers
    /\ page = 1
    /\ repos = <<>>
    /\ requested = <<>>
    /\ repositories = <<>>
    /\ attempted = <<>>
    /\ analyzed_repos = <<>>
    /\ outputs = NoOutputs

NextPages == FetchPage

\* The loop is straight-line code around one request: once the request has
\* an answer the turn of the loop runs to its end.
FairSpecPages == InitPages /\ [][NextPages]_vars /\ WF_vars(FetchPage)

PagesReturned == pc = "paged"

\* The page ends the loop: failed, empty or shorter than per_page.
EndsLoop(k) == ~ server[k].ok \/ Len(server[k].items) < per_page

\* The items of pages 1..k in page order.
RECURSIVE Received(_)
Received(k) == IF k = 0 THEN <<>> ELSE Received(k - 1) \o server[k].items

\* C29: pages 1, 2, 3, ... are requested in order; the result is the
\* concatenation, in page order, of the pages received up to and including
\* the first page k shorter than per_page (a failed or empty page adds
\* nothing), no page after k is requested, and the loop ends whenever the
\* server has a page that is failed, empty or short.
C29_Pages ==
    /\ [] /\ requested = [i \in 1..Len(requested) |-> i]
          /\ \A j \in 1..Len(requested) - 1 : ~ EndsLoop(j)
          /\ ~ PagesReturned =>
                /\ page = Len(requested) + 1
                /\ repos = Received(Len(requested))
                /\ Len(requested) >= 1 => ~ EndsLoop(Len(requested))
          /\ PagesReturned =>
                /\ Len(requested) >= 1
                /\ EndsLoop(Len(requested))
                /\ repos = Received(Len(requested))
    /\ [][PagesReturned => UNCHANGED <<requested, repos>>]_vars
    /\ (\E k \in 1..MaxPages : EndsLoop(k)) ~> PagesReturned

\* A full page followed by a short one, both kept.
C29_Witness ==
    /\ PagesReturned
    /\ requested = <<1, 2>>
    /\ Len(repos) = per_page + 1
    /\ repos[per_page + 1] = <<2, 1>>

----------------------------------------------------------------------------
(* The profile of a user: analyze_user_profile, lines 519-581 of            *)
(* github_scraper.py.                                                       *)

AnalysisLimit == 10     \* line 533: repositories[:10]
MaxFetched    == 12     \* repositories the fetched list has at most

\* A repository of the fetched list, named by its place; raises says
\* whether analyze_repository raises on it.
FetchedLists ==
    UNION { { [i \in 1..n |-> [name |-> i, raises |-> f[i]]] :
                f \in [1..n -> BOOLEAN] } : n \in 0..MaxFetched }

\* repositories[:10]
Limited(s) == SubSeq(s, 1, IF Len(s) < AnalysisLimit THEN Len(s) ELSE AnalysisLimit)

\* What analyze_repository returns for a repository it can analyse.
RepositoryMetrics(repo) == [name |-> repo.name, analysed |-> TRUE]

notUser == <<gradeVars, acidVars, depVars, scanVars, passRest, rateVars,
             pageVars, outputs>>

\* Lines 523-528: no profile data raises; otherwise the list is at hand.
GetProfile ==
    /\ pc = "profile_get"
    /\ pc' \in {"profile_raised", "profile_loop"}
    /\ UNCHANGED <<repositories, attempted, analyzed_repos, notUser>>

\* A variant with the try around the whole loop: the first repository that
\* raises ends the analysis of the list.
AnalyzeRepositoryOneTry ==
    /\ pc = "profile_loop"
    /\ Len(attempted) < Len(Limited(repositories))
    /\ LET repo == Limited(repositories)[Len(attempted) + 1]
       IN  /\ attempted' = IF repo.raises THEN Limited(repositories)
                           ELSE Append(attempted, repo)
           /\ analyzed_repos' =
                 IF repo.raises THEN analyzed_repos
                 ELSE Append(analyzed_repos, RepositoryMetrics(repo))
    /\ UNCHANGED <<pc, repositories, notUser>>

\* Lines 533-538, one turn of the loop: the next repository of the first
\* ten is analysed; its metrics are appended, or the exception is printed.
AnalyzeRepository ==
    /\ pc = "profile_loop"
    /\ Len(attempted) < Len(Limited(repositories))
    /\ LET repo == Limited(repositories)[Len(attempted) + 1]
       IN  /\ attempted' = Append(attempted, repo)
           /\ analyzed_repos' =
                 IF repo.raises THEN analyzed_repos
                 ELSE Append(analyzed_repos, RepositoryMetrics(repo))
    /\ UNCHANGED <<pc, repositories, notUser>>

\* Lines 540-581: the loop is over, ProfileMetrics is built with
\* repositories = analyzed_repos.
ReturnProfile ==
    /\ pc = "profile_loop"
    /\ Len(attempted) = Len(Limited(repositories))
    /\ pc' = "profile_returned"
    /\ UNCHANGED <<repositories, attempted, analyzed_repos, notUser>>

InitProfile ==
    /\ count = 0
    /\ total = 0
    /\ grade = "none"
    /\ code_metrics = EmptyDict
    /\ vulnerabilities = 0
    /\ quality_issues = [t \in IssueTypes |-> 0]
    /\ acid_scores = NoAcid
    /\ name = <<>>
    /\ version = <<>>
    /\ dep_vulnerabilities = NoResult
    /\ content = <<>>
    /\ scan_vulnerabilities = <<>>
    /\ scan_issues = <<>>
    /\ sec_scans = 0
    /\ qual_scans = 0
    /\ tree = <<>>
    /\ cloc = NoCloc
    /\ manifests = NoManifests
    /\ repo_dir = "None"
    /\ pc = "profile_get"
    /\ locals = NoLocals
    /\ result = NoneYet
    /\ temp_dirs = {}
    /\ rate_limit_remaining = 5000
    /\ rate_limit_reset = 0
    /\ now = 0
    /\ sent = <<>>
    /\ server = <<>>
    /\ page = 1
    /\ repos = <<>>
    /\ requested = <<>>
    /\ repositories \in FetchedLists
    /\ attempted = <<>>
    /\ analyzed_repos = <<>>
    /\ outputs = NoOutputs

NextProfile == GetProfile \/ AnalyzeRepository \/ ReturnProfile
SpecProfile == InitProfile /\ [][NextProfile]_vars

ProfileReturned == pc = "profile_returned"

\* The metrics of those repositories of s that did not raise, in order.
RECURSIVE Analysable(_)
Analysable(s) ==
    IF s = <<>> THEN <<>>
    ELSE (IF Head(s).raises THEN <<>> ELSE <<RepositoryMetrics(Head(s))>>)
         \o Analysable(Tail(s))

\* C30: at most the first 10 repositories of the fetched list are analysed,
\* in list order; one that raises is left out without stopping the others,
\* and those present keep their relative order.
C30_FirstTenInOrder ==
    /\ Len(attempted) <= AnalysisLimit
    /\ attempted = SubSeq(repositories, 1, Len(attempted))
    /\ analyzed_repos = Analysable(attempted)
    /\ ProfileReturned =>
          /\ Len(attempted) = IF Len(repositories) < AnalysisLimit
                              THEN Len(repositories) ELSE AnalysisLimit
          /\ \A i, j \in 1..Len(analyzed_repos) :
                i < j => analyzed_repos[i].name < analyzed_repos[j].name

\* Eleven repositories fetched, the second raises, nine are present.
C30_Witness ==
    /\ ProfileReturned
    /\ Len(repositories) = AnalysisLimit + 1
    /\ repositories[2].raises
    /\ Len(analyzed_repos) = AnalysisLimit - 1
    /\ analyzed_repos[2].name = 3

----------------------------------------------------------------------------
(* The pipeline: run_complete_analysis, lines 186-230 of                    *)
(* test_github_analysis.py.                                                 *)

\* The methods of class AdvancedGitHubAnalyzer, lines 161-869 of
\* advanced_github_analyzer.py; the class has no base class.
AnalyzerMethods ==
    {"__init__", "_check_rate_limit", "_make_request",
     "analyze_repository_detailed", "_clone_repository",
     "_analyze_code_metrics_advanced", "_analyze_python_metrics",
     "_analyze_js_metrics", "_extract_dependencies_detailed",
     "_check_dependency_vulnerabilities", "_analyze_security_vulnerabilities",
     "_analyze_code_quality_issues", "_detect_architecture_patterns",
     "_calculate_acid_scores_detailed", "_extract_frameworks_advanced",
     "_analyze_file_structure", "_calculate_complexity_metrics",
     "_analyze_test_coverage", "_analyze_performance_metrics"}

\* Lines 16-65: analyze_user_profile raised (no profile data) and the
\* except clause answers None, or the metrics are saved and returned.
test_basic_analysis(profile_fetched) ==
    IF profile_fetched THEN "ProfileMetrics" ELSE "None"

\* Lines 67-154: analyzer.get_user_profile is looked up on the analyzer
\* (76); a missing attribute raises AttributeError inside the try, and the
\* except clause (152-154) answers None.  With the profile at hand the first
\* repository is analysed in detail (84) and its metrics are returned; no
\* repository (148-150) or a raising analysis answers None.
test_advanced_analysis(repositories_of_user) ==
    IF "get_user_profile" \notin AnalyzerMethods THEN "None"
    ELSE IF repositories_of_user = <<>> THEN "None"
    ELSE IF repositories_of_user[1].raises THEN "None"
    ELSE "DetailedRepositoryMetrics"

\* Lines 156-184: the fields are read with analysis_data.get (165); the
\* metrics of the analyzer are a dataclass, which has no get, so the except
\* clause (183) prints the failure.  A dict is drawn.
test_visualization(analysis_data) ==
    IF analysis_data = "DetailedRepositoryMetrics" THEN "failed"
    ELSE "generated"

notPipeline == <<gradeVars, acidVars, depVars, scanVars, passRest, rateVars,
                 pageVars, repositories>>

\* Lines 196-230, the next statement of run_complete_analysis: step 1 and
\* the return on `not basic_results`, step 2 and the return on
\* `not advanced_results`, step 3, the summary.
PipelineStep ==
    /\ pc \in {"step1", "step2", "step3", "summary"}
    /\ CASE pc = "step1" ->
              \E profile_fetched \in BOOLEAN :
                 LET basic_results == test_basic_analysis(profile_fetched)
                 IN  /\ outputs' = [outputs EXCEPT !.basic = basic_results]
                     /\ attempted' = IF profile_fetched
                                     THEN Limited(repositories) ELSE <<>>
                     /\ analyzed_repos' = Analysable(attempted')
                     /\ pc' = IF basic_results = "None" THEN "returned"
                              ELSE "step2"
         [] pc = "step2" ->
              LET advanced_results == test_advanced_analysis(repositories)
              IN  /\ outputs' = [outputs EXCEPT !.advanced = advanced_results]
                  /\ pc' = IF advanced_results = "None" THEN "returned"
                           ELSE "step3"
                  /\ UNCHANGED <<attempted, analyzed_repos>>
         [] pc = "step3" ->
              /\ outputs' = [outputs EXCEPT
                                !.visualization = test_visualization(outputs.advanced)]
              /\ pc' = "summary"
              /\ UNCHANGED <<attempted, analyzed_repos>>
         [] pc = "summary" ->
              /\ pc' = "returned"
              /\ UNCHANGED <<outputs, attempted, analyzed_repos>>
    /\ UNCHANGED notPipeline

InitPipeline ==
    /\ count = 0
    /\ total = 0
    /\ grade = "none"
    /\ code_metrics = EmptyDict
    /\ vulnerabilities = 0
    /\ quality_issues = [t \in IssueTypes |-> 0]
    /\ acid_scores = NoAcid
    /\ name = <<>>
    /\ version = <<>>
    /\ dep_vulnerabilities = NoResult
    /\ content = <<>>
    /\ scan_vulnerabilities = <<>>
    /\ scan_issues = <<>>
    /\ sec_scans = 0
    /\ qual_scans = 0
    /\ tree = <<>>
    /\ cloc = NoCloc
    /\ manifests = NoManifests
    /\ repo_dir = "None"
    /\ pc = "step1"
    /\ locals = NoLocals
    /\ result = NoneYet
    /\ temp_dirs = {}
    /\ rate_limit_remaining = 5000
    /\ rate_limit_reset = 0
    /\ now = 0
    /\ sent = <<>>
    /\ server = <<>>
    /\ page = 1
    /\ repos = <<>>
    /\ requested = <<>>
    /\ repositories \in FetchedLists
    /\ attempted = <<>>
    /\ analyzed_repos = <<>>
    /\ outputs = NoOutputs

NextPipeline == PipelineStep

\* run_complete_analysis is straight-line code: a step that has returned is
\* followed by the next statement.
FairSpecPipeline == InitPipeline /\ [][NextPipeline]_vars /\ WF_vars(PipelineStep)

\* The basic analysis has succeeded and the first repository of the user
\* can be analysed.
BasicDoneAndAnalysable ==
    /\ outputs.basic = "ProfileMetrics"
    /\ repositories # <<>> /\ ~ repositories[1].raises

AllOutputsProduced ==
    /\ pc = "returned"
    /\ outputs.basic = "ProfileMetrics"
    /\ outputs.advanced = "DetailedRepositoryMetrics"
    /\ outputs.visualization = "generated"

\* C26: the three steps run in the order basic, advanced, visualization,
\* each only after the one before returned a result, and when the basic
\* analysis succeeds and the user has a repository that can be analysed the
\* run reaches the visualization and ends with all three outputs produced.
C26_PipelineCompletes ==
    /\ [] /\ outputs.advanced # "unset" => outputs.basic = "ProfileMetrics"
          /\ outputs.visualization # "unset" =>
                outputs.advanced = "DetailedRepositoryMetrics"
    /\ BasicDoneAndAnalysable ~> AllOutputsProduced

=============================================================================
